---------------------------- MODULE Spec2Model ----------------------------
(***************************************************************************)
(* A model of the quiz bot's session/question orchestrator                 *)
(* (cogs/game_manager_cog.py), the store adapter's score and session       *)
(* operations (utils/database_manager.py) and the LLM adapter's result     *)
(* normalisation (utils/openai_client.py).                                 *)
(*                                                                         *)
(* The bot runs on one asyncio event loop: a coroutine runs without        *)
(* interruption until it awaits something that really suspends.  Every     *)
(* action below is one such uninterrupted stretch of one coroutine; the    *)
(* records in answers, generations and session_start hold the position     *)
(* and the local variables of the coroutines that are suspended.           *)
(***************************************************************************)
EXTENDS Integers, Sequences, FiniteSets, TLC

\* ------------------------------------------------------------ bounds
MaxUsers     == 2   \* distinct Discord users
MaxAnswers   == 2   \* process_user_answer coroutines in flight at once
MaxGens      == 2   \* generate_and_post_new_question coroutines in flight
MaxMessages  == 2   \* question messages the channel accepts
MaxSessions  == 2   \* rows the store adds to quiz_sessions
MaxUpdates   == 2   \* update_score calls the store answers

\* ------------------------------------------------------------ config.py
QUESTION_INACTIVITY_TIMEOUT_HOURS == 2
MAX_ATTEMPTS_PER_QUESTION         == 5
POINTS_EASY                       == 1
POINTS_MEDIUM                     == 2
POINTS_DIFFICULT                  == 5
POINTS_DEDUCTION_INCORRECT        == 2
OPENAI_MAX_RETRIES                == 10
DB_MAX_RETRIES                    == 10

\* Python's None.  Ids (sessions, messages, users, questions) start at 1, so
\* 0 is also the one falsy value the code's truth tests can meet.
None == 0

\* current_question_post_time is None
NoTime == -1

Users      == 1..MaxUsers
AnswerIds  == 1..MaxAnswers
GenIds     == 1..MaxGens

VARIABLES
    \* GameManagerCog.__init__
    active_session_id,
    current_question_text,
    current_question_intended_answer,
    current_question_difficulty,
    current_question_points,
    current_question_message_id,
    \* now - current_question_post_time in hours (line 437), NoTime while
    \* current_question_post_time is None; hours beyond the timeout are not
    \* told apart
    time_since_last_activity,
    user_attempts,
    question_answered_by,
    quiz_channel,
    \* AIQuizBot.db_manager
    db_manager,
    \* the store's tables
    quiz_sessions,
    scores,
    \* the number of messages the channel has given an id
    channel_messages,
    \* suspended coroutines
    answers,
    generations,
    session_start,
    \* question_inactivity_timer, the tasks.loop started in __init__, is running
    timer_running,
    \* Config.ADMIN_USER_IDS and the owner of the bot's application
    admin_ids,
    owner_id,
    \* the generate_question or evaluate_answer call of the LLM adapter, and
    \* the _db_call_with_retry call of the store adapter, followed on their own
    openai_call,
    db_call,
    \* bot.is_ready(): the transport has reported ready
    bot_ready,
    \* GameManagerCog is registered with the bot (get_cog finds it)
    cog_loaded,
    \* history: the body of question_inactivity_timer has run
    timer_ticked,
    \* history: interaction.user of the latest /resetscores or /skipquestion
    interaction_user,
    \* history: what _is_authorized_admin returned for that invocation
    interaction_admitted,
    \* history: the deltas update_score has applied to each key, in order,
    \* and the number of update_score calls the store has answered
    applied,
    updates

question_vars == <<current_question_text, current_question_intended_answer,
                   current_question_difficulty, current_question_points,
                   current_question_message_id, time_since_last_activity,
                   user_attempts, question_answered_by>>
cog_vars   == <<active_session_id, question_vars, quiz_channel>>
store_vars == <<quiz_sessions, scores, applied, updates>>
config_vars  == <<admin_ids, owner_id>>
adapter_vars == <<openai_call, db_call>>
lifecycle_vars == <<bot_ready, cog_loaded, timer_ticked>>
world_vars == <<db_manager, channel_messages, timer_running, lifecycle_vars, config_vars,
                adapter_vars>>
interaction_vars == <<interaction_user, interaction_admitted>>
env_vars   == <<world_vars, interaction_vars>>
task_vars  == <<answers, generations, session_start>>
vars       == <<cog_vars, store_vars, env_vars, task_vars>>

\* ------------------------------------------------------------ dicts
EmptyDict == [k \in {} |-> None]

DictSet(d, k, v) == [x \in (DOMAIN d) \cup {k} |-> IF x = k THEN v ELSE d[x]]

DictGet(d, k, default) == IF k \in DOMAIN d THEN d[k] ELSE default

\* ------------------------------------------------------------ strings
\* str.lower() on the strings the model uses
Lower(s) ==
    CASE s = "Correct"           -> "correct"
      [] s = "Incorrect"         -> "incorrect"
      [] s = "Partially correct" -> "partially correct"
      [] s = "Partially Correct" -> "partially correct"
      [] s = "Basic Knowledge"   -> "basic knowledge"
      [] s = "Intermediate"      -> "intermediate"
      [] s = "Expert"            -> "expert"
      [] OTHER                   -> s

\* `sub in s` on the lower-cased difficulty assessments the model uses
Contains(s, sub) ==
    CASE sub = "basic"        -> s \in {"basic knowledge", "basic to intermediate"}
      [] sub = "intermediate" -> s \in {"intermediate", "basic to intermediate"}
      [] sub = "advanced"     -> s \in {"advanced knowledge"}
      [] OTHER                -> FALSE


\* ------------------------------------------------------------ initial state
IdleAnswer == [pc |-> "idle", user |-> None, key |-> None, status |-> "",
               delta |-> 0, sess |-> None]
IdleGen    == [pc |-> "idle", watchdog |-> FALSE]
IdleStart  == [pc |-> "idle", ending |-> None]

\* The store adapter the bot holds: AIQuizBot.__init__ sets None, setup_hook
\* replaces it with a DatabaseManager.
DB == 1
\* The resolved quiz channel object.
CH == 1

\* No parsed JSON value.
NoData == [type |-> "none", keys |-> {}, status |-> ""]

\* No adapter call under way.
IdleOpenAICall == [pc |-> "idle", method |-> "", attempt |-> 0, requests |-> 0,
                   sleeps |-> <<>>, outcome |-> "", status_code |-> 0,
                   raised |-> FALSE, error |-> "", data |-> NoData]
IdleDbCall     == [pc |-> "idle", attempt |-> 0, invoked |-> 0, waits |-> <<>>,
                   last_exception |-> "", outcome |-> "", result |-> ""]

\* The bot's owner when not one of the users who invoke commands.
Outsider == MaxUsers + 1

\* GameManagerCog.__init__, the empty store and the adapters at rest
Construction ==
    /\ active_session_id = None
    /\ current_question_text = None
    /\ current_question_intended_answer = None
    /\ current_question_difficulty = ""
    /\ current_question_points = 0
    /\ current_question_message_id = None
    /\ time_since_last_activity = NoTime
    /\ user_attempts = EmptyDict
    /\ question_answered_by = None
    /\ quiz_channel = None
    /\ db_manager \in {None, DB}
    /\ quiz_sessions = EmptyDict
    /\ scores = EmptyDict
    /\ applied = EmptyDict
    /\ updates = 0
    /\ channel_messages = 0
    /\ answers = [c \in AnswerIds |-> IdleAnswer]
    /\ generations = [g \in GenIds |-> IdleGen]
    /\ session_start = IdleStart
    /\ timer_running = TRUE
    /\ openai_call = IdleOpenAICall
    /\ db_call = IdleDbCall
    /\ interaction_user = None
    /\ interaction_admitted = FALSE
    /\ cog_loaded = TRUE

\* The transport has reported ready and question_inactivity_timer, released
\* from its before_loop hook, has run its first tick, which found no question.
Ready ==
    /\ bot_ready = TRUE
    /\ timer_ticked = TRUE

\* ADMIN_USER_IDS is not set (config.py line 25) and user 1 owns the bot.
Init ==
    /\ Construction
    /\ Ready
    /\ admin_ids = {}
    /\ owner_id = 1

\* Any admin list, the owner one of the users or none of them.
InitAdmin ==
    /\ Construction
    /\ Ready
    /\ admin_ids \in SUBSET Users
    /\ owner_id \in {1, Outsider}

\* The cog has just been constructed in setup_hook: the bot has not connected
\* and the timer waits in before_question_inactivity_timer.
InitStartup ==
    /\ Construction
    /\ bot_ready = FALSE
    /\ timer_ticked = FALSE
    /\ admin_ids = {}
    /\ owner_id = 1

\* ------------------------------------------------------------ _reset_question_state
\* a faulty variant: the resolver survives the reset
ResetQuestionState_KeepResolver ==
    /\ current_question_text' = None
    /\ current_question_intended_answer' = None
    /\ current_question_difficulty' = ""
    /\ current_question_points' = 0
    /\ current_question_message_id' = None
    /\ time_since_last_activity' = NoTime
    /\ user_attempts' = EmptyDict
    /\ question_answered_by' = question_answered_by

\* a faulty variant: the attempt map survives the reset
ResetQuestionState_KeepAttempts ==
    /\ current_question_text' = None
    /\ current_question_intended_answer' = None
    /\ current_question_difficulty' = ""
    /\ current_question_points' = 0
    /\ current_question_message_id' = None
    /\ time_since_last_activity' = NoTime
    /\ user_attempts' = user_attempts
    /\ question_answered_by' = None

ResetQuestionState ==
    /\ current_question_text' = None
    /\ current_question_intended_answer' = None
    /\ current_question_difficulty' = ""
    /\ current_question_points' = 0
    /\ current_question_message_id' = None
    /\ time_since_last_activity' = NoTime
    /\ user_attempts' = EmptyDict
    /\ question_answered_by' = None

\* ------------------------------------------------------------ _get_quiz_channel
\* The cached channel, or what get_channel/fetch_channel produce now:
\* found = FALSE stands for NotFound, Forbidden or any other failure.
GetQuizChannel(found) ==
    IF quiz_channel # None THEN quiz_channel
    ELSE IF found THEN CH ELSE None

\* lines 77-79: a channel that is not cached is fetched only once the bot is
\* ready; until then the caller stays suspended in wait_until_ready.  (Without
\* a configured QUIZ_CHANNEL_ID nothing is awaited and None is the result.)
ReadyFor(found) == IF found /\ quiz_channel = None THEN bot_ready ELSE TRUE

\* ------------------------------------------------------------ scheduling the next question
\* A generate_and_post_new_question coroutine that has been created (by
\* asyncio.create_task, or by a caller that awaits it after its own replies)
\* and has not run yet.
HasFreeGen == \E g \in GenIds : generations[g].pc = "idle"

FreeGen == CHOOSE g \in GenIds :
    /\ generations[g].pc = "idle"
    /\ \A h \in GenIds : h < g => generations[h].pc # "idle"

ScheduleGeneration ==
    generations' = [generations EXCEPT ![FreeGen] = [IdleGen EXCEPT !.pc = "scheduled"]]

\* The watchdog's own call: the loop body awaits it, so the loop does not
\* tick again before it is over.
ScheduleWatchdogGeneration ==
    generations' = [generations EXCEPT ![FreeGen] =
                       [IdleGen EXCEPT !.pc = "scheduled", !.watchdog = TRUE]]

\* ------------------------------------------------------------ evaluate_answer
\* What the chat-completion request behind evaluate_answer can come to: a
\* failure (exhausted retries, a status error, no choices, unparseable JSON,
\* missing keys) or a JSON object with a status string.
LlmEvaluations ==
    {[kind |-> "error", status |-> ""]} \cup
    {[kind |-> "json", status |-> s] :
        s \in {"Correct", "Incorrect", "Partially correct", "Partially Correct", "Maybe"}}

\* OpenAIClient.evaluate_answer: an error dict, or the data with any status
\* outside the three exact strings replaced by "Incorrect".
evaluate_answer(reply) ==
    IF reply.kind = "error"
    THEN [error |-> TRUE, status |-> ""]
    ELSE [error |-> FALSE,
          status |-> IF reply.status \in {"Correct", "Incorrect", "Partially correct"}
                     THEN reply.status ELSE "Incorrect"]

\* ------------------------------------------------------------ process_user_answer
\* a faulty variant: only the session is looked at
NoActiveQuestion_SessionOnly == active_session_id = None

\* a faulty variant: only the message id is looked at
NoActiveQuestion_MessageOnly == current_question_message_id = None

\* line 257
NoActiveQuestion ==
    current_question_message_id = None \/ active_session_id = None

\* line 260
AlreadyAnswered == question_answered_by # None

\* lines 274-278: the attempt map with an entry for the question
AttemptsFor(d, key) ==
    IF key \in DOMAIN d THEN d ELSE DictSet(d, key, EmptyDict)

\* line 280
AttemptCount(d, key, u) == DictGet(AttemptsFor(d, key)[key], u, 0)

\* a faulty variant: one attempt too many is let through
AttemptsExhausted_OffByOne(d, key, u) ==
    AttemptCount(d, key, u) > MAX_ATTEMPTS_PER_QUESTION

\* line 282
AttemptsExhausted(d, key, u) == AttemptCount(d, key, u) >= MAX_ATTEMPTS_PER_QUESTION

\* line 285
ChargeAttempt(d, key, u) ==
    DictSet(AttemptsFor(d, key), key,
            DictSet(AttemptsFor(d, key)[key], u, AttemptCount(d, key, u) + 1))

\* line 298: the subscripts raise KeyError when the entry is gone
CanRefund(d, key, u) == key \in DOMAIN d /\ u \in DOMAIN d[key]

\* a faulty variant: the refund takes two attempts back
RefundAttempt_Twice(d, key, u) == DictSet(d, key, DictSet(d[key], u, d[key][u] - 2))

\* a faulty variant: the attempt is taken back from the question that is
\* current when the evaluation returns
RefundAttempt_CurrentQuestion(d, key, u) ==
    DictSet(AttemptsFor(d, current_question_message_id), current_question_message_id,
            DictSet(AttemptsFor(d, current_question_message_id)[current_question_message_id],
                    u, AttemptCount(d, current_question_message_id, u) - 1))

RefundAttempt(d, key, u) == DictSet(d, key, DictSet(d[key], u, d[key][u] - 1))

\* lines 295-299: the reply to a failed evaluation, or the KeyError that
\* leaves process_user_answer from line 298
EvaluationFailedReturn(d, key, u) ==
    IF CanRefund(d, key, u) THEN "could not evaluate" ELSE "raise KeyError"

\* a faulty variant: a half is rounded up
RoundHalf_Up(x) == (x + 1) \div 2

\* round(x / 2) for an integer x >= 0: Python rounds a half to the even
\* neighbour
RoundHalf(x) ==
    IF x % 2 = 0 THEN x \div 2
    ELSE IF (x \div 2) % 2 = 0 THEN x \div 2 ELSE (x \div 2) + 1

\* a faulty variant: a correct answer earns the partial award
ScoreDelta_HalfForCorrect(status, points) ==
    IF status \in {"correct", "partially correct"} THEN RoundHalf(points)
    ELSE 0 - POINTS_DEDUCTION_INCORRECT

\* lines 312-333: the delta passed to update_score
ScoreDelta(status, points) ==
    IF status = "correct" THEN points
    ELSE IF status = "partially correct" THEN RoundHalf(points)
    ELSE 0 - POINTS_DEDUCTION_INCORRECT

\* lines 315, 324: the branches that set question_answered_by
ResolvingStatus(status) == status \in {"correct", "partially correct"}

\* lines 257-283: the reply of the checks that come before any effect, or
\* "evaluate" when the call goes on to charge the attempt
EarlyReturn(u) ==
    IF NoActiveQuestion THEN "no active question"
    ELSE IF AlreadyAnswered THEN "already answered"
    ELSE IF AttemptsExhausted(user_attempts, current_question_message_id, u)
    THEN "attempts used"
    ELSE "evaluate"

\* The commands reach the cog through bot.get_cog("GameManagerCog")
\* (quiz_cog.py line 24, admin_cog.py lines 61 and 100): every action in which
\* a command enters the cog has cog_loaded as a guard.
HasFreeAnswer == \E c \in AnswerIds : answers[c].pc = "idle"

FreeAnswer == CHOOSE c \in AnswerIds :
    /\ answers[c].pc = "idle"
    /\ \A d \in AnswerIds : d < c => answers[d].pc # "idle"

\* lines 257-259
ProcessUserAnswer_NoActive ==
    \E u \in Users :
        /\ cog_loaded
        /\ EarlyReturn(u) = "no active question"
        /\ UNCHANGED vars

\* lines 260-270
ProcessUserAnswer_AlreadyAnswered ==
    \E u \in Users :
        /\ cog_loaded
        /\ EarlyReturn(u) = "already answered"
        /\ UNCHANGED vars

\* lines 272-283
ProcessUserAnswer_AttemptsUsed ==
    \E u \in Users :
        /\ cog_loaded
        /\ EarlyReturn(u) = "attempts used"
        /\ time_since_last_activity' = 0
        /\ user_attempts' = AttemptsFor(user_attempts, current_question_message_id)
        /\ UNCHANGED <<active_session_id, current_question_text,
                       current_question_intended_answer, current_question_difficulty,
                       current_question_points, current_question_message_id,
                       question_answered_by, quiz_channel,
                       store_vars, env_vars, task_vars>>

\* lines 272-293, up to the await of evaluate_answer
ProcessUserAnswer_Charge ==
    \E u \in Users :
        /\ cog_loaded
        /\ EarlyReturn(u) = "evaluate"
        /\ HasFreeAnswer
        /\ time_since_last_activity' = 0
        /\ user_attempts' = ChargeAttempt(user_attempts, current_question_message_id, u)
        /\ answers' = [answers EXCEPT ![FreeAnswer] =
                          [IdleAnswer EXCEPT !.pc = "evaluate_answer", !.user = u,
                                             !.key = current_question_message_id]]
        /\ UNCHANGED <<active_session_id, current_question_text,
                       current_question_intended_answer, current_question_difficulty,
                       current_question_points, current_question_message_id,
                       question_answered_by, quiz_channel,
                       store_vars, env_vars, generations, session_start>>

\* lines 295-299: evaluate_answer came back with an error
ProcessUserAnswer_EvaluationFailed ==
    \E c \in AnswerIds, reply \in LlmEvaluations :
        /\ answers[c].pc = "evaluate_answer"
        /\ evaluate_answer(reply).error
        /\ user_attempts' =
               IF EvaluationFailedReturn(user_attempts, answers[c].key, answers[c].user)
                      = "could not evaluate"
               THEN RefundAttempt(user_attempts, answers[c].key, answers[c].user)
               ELSE user_attempts
        /\ answers' = [answers EXCEPT ![c] = IdleAnswer]
        /\ UNCHANGED <<active_session_id, current_question_text,
                       current_question_intended_answer, current_question_difficulty,
                       current_question_points, current_question_message_id,
                       time_since_last_activity, question_answered_by, quiz_channel,
                       store_vars, env_vars, generations, session_start>>

\* lines 301-333, up to the await of update_score
ProcessUserAnswer_Evaluated ==
    \E c \in AnswerIds, reply \in LlmEvaluations :
        /\ answers[c].pc = "evaluate_answer"
        /\ ~evaluate_answer(reply).error
        /\ answers' = [answers EXCEPT ![c] =
               IF db_manager = None
               THEN IdleAnswer
               ELSE [@ EXCEPT !.pc = "update_score", !.key = None,
                              !.status = Lower(evaluate_answer(reply).status),
                              !.delta = ScoreDelta(Lower(evaluate_answer(reply).status),
                                                   current_question_points),
                              !.sess = active_session_id]]
        /\ UNCHANGED <<cog_vars, store_vars, env_vars, generations, session_start>>

\* ------------------------------------------------------------ update_score
\* a faulty variant: the row is overwritten with the delta
UpdateScore_Overwrite(tbl, user_id, session_id, points_change) ==
    DictSet(tbl, <<user_id, session_id>>, points_change)

\* DatabaseManager.update_score, _update_op_sync: select the row, then update
\* it with score + points_change, or insert points_change when there is none.
\* The select and the write run in one synchronous call.
UpdateScore(tbl, user_id, session_id, points_change) ==
    IF <<user_id, session_id>> \in DOMAIN tbl
    THEN DictSet(tbl, <<user_id, session_id>>, tbl[<<user_id, session_id>>] + points_change)
    ELSE DictSet(tbl, <<user_id, session_id>>, points_change)

\* history: the deltas applied to each key, in the order of the calls
Applied(hist, user_id, session_id, points_change) ==
    DictSet(hist, <<user_id, session_id>>,
            Append(DictGet(hist, <<user_id, session_id>>, <<>>), points_change))

\* lines 314-338 after update_score returned: the resolver is set on the
\* correct and partially-correct branches; an unresolved question returns the
\* private feedback at once (line 369).  With a resolver set, line 339 awaits
\* the channel: with a cached channel and nothing to announce (the incorrect
\* branch) nothing suspends before create_task on line 367.
ProcessUserAnswer_ScoreUpdated ==
    \E c \in AnswerIds :
        LET a == answers[c]
            resolver == IF ResolvingStatus(a.status) THEN a.user ELSE question_answered_by
            straight == ~ResolvingStatus(a.status) /\ quiz_channel # None
        IN  /\ a.pc = "update_score"
            /\ updates < MaxUpdates
            /\ updates' = updates + 1
            /\ scores' = UpdateScore(scores, a.user, a.sess, a.delta)
            /\ applied' = Applied(applied, a.user, a.sess, a.delta)
            /\ question_answered_by' = resolver
            /\ IF resolver = None
               THEN /\ answers' = [answers EXCEPT ![c] = IdleAnswer]
                    /\ UNCHANGED generations
               ELSE IF straight
               THEN /\ HasFreeGen
                    /\ ScheduleGeneration
                    /\ answers' = [answers EXCEPT ![c] = IdleAnswer]
               ELSE /\ answers' = [answers EXCEPT ![c] =
                           [@ EXCEPT !.pc = "announce", !.delta = 0, !.sess = None]]
                    /\ UNCHANGED generations
            /\ UNCHANGED <<active_session_id, current_question_text,
                           current_question_intended_answer, current_question_difficulty,
                           current_question_points, current_question_message_id,
                           time_since_last_activity, user_attempts, quiz_channel,
                           quiz_sessions, env_vars, session_start>>

\* a faulty variant: the resolver is set before update_score is awaited
ProcessUserAnswer_ScoreRaised_ResolverFirst ==
    \E c \in AnswerIds :
        /\ answers[c].pc = "update_score"
        /\ answers' = [answers EXCEPT ![c] = IdleAnswer]
        /\ question_answered_by' =
               IF ResolvingStatus(answers[c].status) THEN answers[c].user
               ELSE question_answered_by
        /\ UNCHANGED <<active_session_id, current_question_text,
                       current_question_intended_answer, current_question_difficulty,
                       current_question_points, current_question_message_id,
                       time_since_last_activity, user_attempts, quiz_channel,
                       store_vars, env_vars, generations, session_start>>

\* update_score raised (the store adapter's retries are exhausted): the
\* exception leaves process_user_answer from line 314, 323 or 333.
ProcessUserAnswer_ScoreRaised ==
    \E c \in AnswerIds :
        /\ answers[c].pc = "update_score"
        /\ answers' = [answers EXCEPT ![c] = IdleAnswer]
        /\ UNCHANGED <<cog_vars, store_vars, env_vars, generations, session_start>>

\* lines 338-369: the channel is resolved, the public feedback is sent or
\* its failure is caught, the next question is scheduled.
ProcessUserAnswer_Announced ==
    \E c \in AnswerIds, found \in BOOLEAN :
        /\ ReadyFor(found)
        /\ answers[c].pc = "announce"
        /\ HasFreeGen
        /\ quiz_channel' = GetQuizChannel(found)
        /\ ScheduleGeneration
        /\ answers' = [answers EXCEPT ![c] = IdleAnswer]
        /\ UNCHANGED <<active_session_id, question_vars, store_vars, env_vars,
                       session_start>>

\* lines 352-354: fetch_message or edit raised NotFound and the channel.send
\* of the handler raised as well.  No except clause covers a handler: the
\* exception leaves process_user_answer before create_task on line 367.
ProcessUserAnswer_AnnounceRaised ==
    \E c \in AnswerIds, found \in BOOLEAN :
        /\ ReadyFor(found)
        /\ answers[c].pc = "announce"
        /\ ResolvingStatus(answers[c].status)
        /\ GetQuizChannel(found) # None
        /\ quiz_channel' = GetQuizChannel(found)
        /\ answers' = [answers EXCEPT ![c] = IdleAnswer]
        /\ UNCHANGED <<active_session_id, question_vars, store_vars, env_vars,
                       generations, session_start>>

\* ------------------------------------------------------------ generate_and_post_new_question
\* What the chat-completion request behind generate_question can come to: an
\* error dict, or a question with the model's own difficulty assessment (any
\* JSON value: a string, or for instance null).
LlmAssessments == {"Basic Knowledge", "advanced knowledge", "Expert", "null"}

\* lines 206-211
QuestionPoints(difficulty) ==
    IF Contains(difficulty, "basic") THEN POINTS_EASY
    ELSE IF Contains(difficulty, "intermediate") THEN POINTS_MEDIUM
    ELSE IF Contains(difficulty, "advanced") THEN POINTS_DIFFICULT
    ELSE POINTS_MEDIUM

\* lines 165-168: the channel cannot be resolved
Generate_NoChannel ==
    \E g \in GenIds :
        /\ generations[g].pc = "scheduled"
        /\ GetQuizChannel(FALSE) = None
        /\ generations' = [generations EXCEPT ![g] = IdleGen]
        /\ UNCHANGED <<cog_vars, store_vars, env_vars, answers, session_start>>

\* a faulty variant: the slot is reset before the session is looked at
Generate_NoSession_Resets ==
    \E g \in GenIds, found \in BOOLEAN :
        /\ ReadyFor(found)
        /\ generations[g].pc = "scheduled"
        /\ GetQuizChannel(found) # None
        /\ active_session_id = None
        /\ quiz_channel' = GetQuizChannel(found)
        /\ ResetQuestionState
        /\ generations' = [generations EXCEPT ![g] = IdleGen]
        /\ UNCHANGED <<active_session_id, store_vars, env_vars, answers, session_start>>

\* lines 170-178: no active session, only the notice is sent
Generate_NoSession ==
    \E g \in GenIds, found \in BOOLEAN :
        /\ ReadyFor(found)
        /\ generations[g].pc = "scheduled"
        /\ GetQuizChannel(found) # None
        /\ active_session_id = None
        /\ quiz_channel' = GetQuizChannel(found)
        /\ generations' = [generations EXCEPT ![g] = IdleGen]
        /\ UNCHANGED <<active_session_id, question_vars, store_vars, env_vars,
                       answers, session_start>>

\* lines 180-194: the slot is reset; with no topics the error notice is sent,
\* otherwise the coroutine awaits generate_question
Generate_Begin ==
    \E g \in GenIds, found \in BOOLEAN, topics \in BOOLEAN :
        /\ ReadyFor(found)
        /\ generations[g].pc = "scheduled"
        /\ GetQuizChannel(found) # None
        /\ active_session_id # None
        /\ quiz_channel' = GetQuizChannel(found)
        /\ ResetQuestionState
        /\ generations' = [generations EXCEPT ![g] =
               IF topics THEN [@ EXCEPT !.pc = "generate_question"] ELSE IdleGen]
        /\ UNCHANGED <<active_session_id, store_vars, env_vars, answers, session_start>>

\* lines 196-200: generate_question returned an error dict (or nothing); the
\* notice is sent, or its failure is caught (lines 229-238)
Generate_Failed ==
    \E g \in GenIds :
        /\ generations[g].pc = "generate_question"
        /\ generations' = [generations EXCEPT ![g] = IdleGen]
        /\ UNCHANGED <<cog_vars, store_vars, env_vars, answers, session_start>>

\* lines 202-222: the question fields are set, then the embed is sent.  The
\* question and its answer are written as the number of the coroutine they
\* were generated for: two coroutines in flight hold different questions.  A
\* difficulty assessment that is no string raises on .lower() after the text
\* and the answer are stored (caught on line 232).
Generate_Generated ==
    \E g \in GenIds, assessment \in LlmAssessments :
        /\ generations[g].pc = "generate_question"
        /\ current_question_text' = g
        /\ current_question_intended_answer' = g
        /\ IF assessment = "null"
           THEN /\ UNCHANGED <<current_question_difficulty, current_question_points>>
                /\ generations' = [generations EXCEPT ![g] = IdleGen]
           ELSE /\ current_question_difficulty' = Lower(assessment)
                /\ current_question_points' = QuestionPoints(Lower(assessment))
                /\ generations' = [generations EXCEPT ![g].pc = "send"]
        /\ UNCHANGED <<active_session_id, current_question_message_id,
                       time_since_last_activity, user_attempts, question_answered_by,
                       quiz_channel, store_vars, env_vars, answers, session_start>>

\* lines 225-226: the posted question starts with an empty attempt map
OpenAttempts(d, key) == DictSet(d, key, EmptyDict)

\* lines 222-227: the channel returned the posted message
Generate_Posted ==
    \E g \in GenIds :
        /\ generations[g].pc = "send"
        /\ channel_messages < MaxMessages
        /\ channel_messages' = channel_messages + 1
        /\ current_question_message_id' = channel_messages + 1
        /\ time_since_last_activity' = 0
        /\ user_attempts' = OpenAttempts(user_attempts, channel_messages + 1)
        /\ generations' = [generations EXCEPT ![g] = IdleGen]
        /\ UNCHANGED <<active_session_id, current_question_text,
                       current_question_intended_answer, current_question_difficulty,
                       current_question_points, question_answered_by, quiz_channel,
                       store_vars, db_manager, timer_running, lifecycle_vars, config_vars,
                       adapter_vars, interaction_vars, answers, session_start>>

\* lines 229-238: channel.send raised (Forbidden or anything else)
Generate_SendFailed ==
    \E g \in GenIds :
        /\ generations[g].pc = "send"
        /\ generations' = [generations EXCEPT ![g] = IdleGen]
        /\ UNCHANGED <<cog_vars, store_vars, env_vars, answers, session_start>>

\* ------------------------------------------------------------ the store's sessions
\* DatabaseManager.create_quiz_session: the insert's new row carries the next
\* serial session_id
NewSessionId(tbl) == Cardinality(DOMAIN tbl) + 1

CreateQuizSession(tbl) == DictSet(tbl, NewSessionId(tbl), "open")

\* create_quiz_session when the insert's response carries no error and no
\* data (the new row is not given back to the client): the row is in the
\* table, None is returned.  The row is marked to tell it from the rows whose
\* id the bot was given.
CreateQuizSessionNoData(tbl) == DictSet(tbl, NewSessionId(tbl), "open, id not returned")

\* DatabaseManager.end_quiz_session: end_time is set on the row with that id
EndQuizSession(tbl, session_id) ==
    IF session_id \in DOMAIN tbl THEN DictSet(tbl, session_id, "ended") ELSE tbl

\* ------------------------------------------------------------ _is_authorized_admin
\* a faulty variant: with no admin list everybody is let in
IsAuthorizedAdmin_OpenWhenEmpty(user) ==
    IF admin_ids = {} THEN TRUE
    ELSE user \in admin_ids \/ user = owner_id

\* admin_cog.py lines 20-40
IsAuthorizedAdmin(user) ==
    IF admin_ids = {} THEN user = owner_id
    ELSE user \in admin_ids \/ user = owner_id

\* reset_scores_command and skip_question_command, lines 48-49 and 93-94:
\* the invoker is turned away before the cog is looked up
ResetScoresCommand_Denied ==
    \E user \in Users :
        /\ ~IsAuthorizedAdmin(user)
        /\ interaction_user' = user
        /\ interaction_admitted' = FALSE
        /\ UNCHANGED <<cog_vars, store_vars, world_vars, task_vars>>

SkipQuestionCommand_Denied ==
    \E user \in Users :
        /\ ~IsAuthorizedAdmin(user)
        /\ interaction_user' = user
        /\ interaction_admitted' = FALSE
        /\ UNCHANGED <<cog_vars, store_vars, world_vars, task_vars>>

\* lines 48 and 93 let the invoker through
Admitted ==
    \E user \in Users :
        /\ IsAuthorizedAdmin(user)
        /\ interaction_user' = user
        /\ interaction_admitted' = TRUE

\* ------------------------------------------------------------ start_new_quiz_session
\* Its one caller, reset_scores_command (admin_cog.py lines 70-84), sends the
\* returned text as a follow-up and then calls
\* generate_and_post_new_question; when the follow-up raises, or when
\* start_new_quiz_session raised, the generation is not called.
AfterAdminReply(replied) ==
    IF replied THEN HasFreeGen /\ ScheduleGeneration ELSE UNCHANGED generations

\* a faulty variant: the store adapter is not looked at
HasDatabaseManager_Unchecked == TRUE

\* lines 107-108
HasDatabaseManager == db_manager # None

\* lines 107-110: ConnectionError is raised
StartNewQuizSession_NoDatabase ==
    /\ cog_loaded
    /\ session_start.pc = "idle"
    /\ ~HasDatabaseManager
    /\ Admitted
    /\ UNCHANGED <<cog_vars, store_vars, world_vars, task_vars>>

\* The old session's row after lines 112-117 ran without an exception
EndActiveSession ==
    IF active_session_id # None
    THEN EndQuizSession(quiz_sessions, active_session_id)
    ELSE quiz_sessions

\* lines 112-146 with a store that answers every call at its first attempt:
\* _db_call_with_retry runs the operation synchronously and sleeps only
\* after a failed attempt, so the coroutine never suspends.
StartNewQuizSession_Started ==
    \E replied \in BOOLEAN :
        /\ cog_loaded
        /\ session_start.pc = "idle"
        /\ HasDatabaseManager
        /\ Cardinality(DOMAIN quiz_sessions) < MaxSessions
        /\ quiz_sessions' = CreateQuizSession(EndActiveSession)
        /\ active_session_id' = NewSessionId(quiz_sessions)
        /\ ResetQuestionState
        /\ AfterAdminReply(replied)
        /\ Admitted
        /\ UNCHANGED <<quiz_channel, scores, applied, updates, world_vars, answers,
                       session_start>>

\* lines 112-122 with a store that answers at its first attempt, the insert
\* giving back no row: create_quiz_session returns None, which is assigned,
\* and the error text is returned before the reset of line 126.
StartNewQuizSession_NotStarted ==
    \E replied \in BOOLEAN :
        /\ cog_loaded
        /\ session_start.pc = "idle"
        /\ HasDatabaseManager
        /\ Cardinality(DOMAIN quiz_sessions) < MaxSessions
        /\ quiz_sessions' = CreateQuizSessionNoData(EndActiveSession)
        /\ active_session_id' = None
        /\ AfterAdminReply(replied)
        /\ Admitted
        /\ UNCHANGED <<question_vars, quiz_channel, scores, applied, updates, world_vars,
                       answers, session_start>>

\* lines 107-119 with a store call that has to be retried: the coroutine is
\* suspended in end_quiz_session, or in create_quiz_session when there is no
\* session to end
StartNewQuizSession_Begin ==
    /\ cog_loaded
    /\ session_start.pc = "idle"
    /\ HasDatabaseManager
    /\ session_start' = IF active_session_id # None
                        THEN [pc |-> "end_quiz_session", ending |-> active_session_id]
                        ELSE [pc |-> "create_quiz_session", ending |-> None]
    /\ Admitted
    /\ UNCHANGED <<cog_vars, store_vars, world_vars, answers, generations>>

\* a faulty variant: an exception out of end_quiz_session ends the call
AfterEndQuizSession_Fatal(ok) ==
    IF ok THEN "create_quiz_session" ELSE "idle"

\* lines 113-119: the try block and the except clause both go on to line 119
AfterEndQuizSession(ok) == "create_quiz_session"

\* lines 113-117: end_quiz_session returned, or raised and was logged
StartNewQuizSession_Ended ==
    \E ok \in BOOLEAN :
        /\ session_start.pc = "end_quiz_session"
        /\ quiz_sessions' = IF ok THEN EndQuizSession(quiz_sessions, session_start.ending)
                            ELSE quiz_sessions
        /\ session_start' = [session_start EXCEPT !.pc = AfterEndQuizSession(ok)]
        /\ UNCHANGED <<cog_vars, scores, applied, updates, env_vars, answers, generations>>

\* lines 119-128: create_quiz_session returned an id
StartNewQuizSession_Created ==
    /\ session_start.pc = "create_quiz_session"
    /\ Cardinality(DOMAIN quiz_sessions) < MaxSessions
    /\ quiz_sessions' = CreateQuizSession(quiz_sessions)
    /\ active_session_id' = NewSessionId(quiz_sessions)
    /\ ResetQuestionState
    /\ session_start' = [session_start EXCEPT !.pc = "get_session_details"]
    /\ UNCHANGED <<quiz_channel, scores, applied, updates, env_vars, answers, generations>>

\* lines 119-122: create_quiz_session returned None
StartNewQuizSession_NoId ==
    \E replied \in BOOLEAN :
        /\ session_start.pc = "create_quiz_session"
        /\ Cardinality(DOMAIN quiz_sessions) < MaxSessions
        /\ quiz_sessions' = CreateQuizSessionNoData(quiz_sessions)
        /\ active_session_id' = None
        /\ session_start' = IdleStart
        /\ AfterAdminReply(replied)
        /\ UNCHANGED <<question_vars, quiz_channel, scores, applied, updates, env_vars,
                       answers>>

\* line 119 or 128: create_quiz_session or get_session_details raised
StartNewQuizSession_Raised ==
    /\ session_start.pc \in {"create_quiz_session", "get_session_details"}
    /\ session_start' = IdleStart
    /\ UNCHANGED <<cog_vars, store_vars, env_vars, answers, generations>>

\* lines 128-146: get_session_details returned, the confirmation is returned
StartNewQuizSession_Returned ==
    \E replied \in BOOLEAN :
        /\ session_start.pc = "get_session_details"
        /\ session_start' = IdleStart
        /\ AfterAdminReply(replied)
        /\ UNCHANGED <<cog_vars, store_vars, env_vars, answers>>

\* ------------------------------------------------------------ skip_current_question
\* a faulty variant: a question without a session is skipped
NothingToSkip_MessageOnly == current_question_message_id = None

\* lines 373-375
NothingToSkip ==
    current_question_message_id = None \/ active_session_id = None

\* skip_question_command (admin_cog.py lines 108-129): refused without a
\* current message; otherwise skip_current_question (lines 373-425: the reset,
\* then the channel is resolved and the old message edited), the follow-up
\* and then generate_and_post_new_question.  When skip_current_question or
\* the follow-up raises, the command's except clause replies and the
\* generation is not called (replied = FALSE).
SkipQuestionCommand_NoQuestion ==
    /\ cog_loaded
    /\ current_question_message_id = None
    /\ Admitted
    /\ UNCHANGED <<cog_vars, store_vars, world_vars, task_vars>>

SkipQuestionCommand ==
    \E found \in BOOLEAN, replied \in BOOLEAN :
        /\ cog_loaded
        /\ ReadyFor(found)
        /\ current_question_message_id # None
        /\ IF NothingToSkip
           THEN UNCHANGED <<question_vars, quiz_channel>>
           ELSE /\ ResetQuestionState
                /\ quiz_channel' = GetQuizChannel(found)
        /\ AfterAdminReply(replied)
        /\ Admitted
        /\ UNCHANGED <<active_session_id, store_vars, world_vars, answers, session_start>>

\* ------------------------------------------------------------ question_inactivity_timer
WatchdogBusy == \E g \in GenIds : generations[g].pc # "idle" /\ generations[g].watchdog

\* a faulty variant: a resolved question times out as well
TimedOut_IgnoresResolver ==
    /\ active_session_id # None
    /\ current_question_message_id # None
    /\ time_since_last_activity # NoTime
    /\ time_since_last_activity > QUESTION_INACTIVITY_TIMEOUT_HOURS

\* a faulty variant: the question times out at the timeout, not after it
TimedOut_AtTimeout ==
    /\ active_session_id # None
    /\ current_question_message_id # None
    /\ question_answered_by = None
    /\ time_since_last_activity # NoTime
    /\ time_since_last_activity >= QUESTION_INACTIVITY_TIMEOUT_HOURS

\* lines 432-440
TimedOut ==
    /\ active_session_id # None
    /\ current_question_message_id # None
    /\ question_answered_by = None
    /\ time_since_last_activity # NoTime
    /\ time_since_last_activity > QUESTION_INACTIVITY_TIMEOUT_HOURS

\* a faulty variant: the loop does not wait for the bot to be ready
LoopServicing_NoWait == timer_running

\* The loop runs its body: started in __init__ (line 49), it is past
\* before_question_inactivity_timer (lines 448-452) and it has neither been
\* cancelled nor stopped by an exception.
LoopServicing == timer_running /\ bot_ready

\* the frame of a tick that changes nothing but the history of ticks
TickOnly ==
    /\ timer_ticked' = TRUE
    /\ UNCHANGED <<cog_vars, store_vars, db_manager, channel_messages, timer_running,
                   bot_ready, cog_loaded, config_vars, adapter_vars, interaction_vars,
                   task_vars>>

\* a tick that finds nothing to do
Watchdog_Idle ==
    /\ LoopServicing
    /\ ~WatchdogBusy
    /\ ~TimedOut
    /\ TickOnly

\* lines 441-443
Watchdog_Timeout ==
    \E found \in BOOLEAN :
        /\ ReadyFor(found)
        /\ LoopServicing
        /\ ~WatchdogBusy
        /\ TimedOut
        /\ HasFreeGen
        /\ ResetQuestionState
        /\ quiz_channel' = GetQuizChannel(found)
        /\ ScheduleWatchdogGeneration
        /\ timer_ticked' = TRUE
        /\ UNCHANGED <<active_session_id, store_vars, db_manager, channel_messages,
                       timer_running, bot_ready, cog_loaded, config_vars, adapter_vars,
                       interaction_vars, answers, session_start>>

\* line 442 raised: in skip_current_question fetch_message or edit raised
\* NotFound and the channel.send of the handler (line 411) raised as well,
\* after the reset of line 381.  The exception leaves the loop body, line 443
\* is not reached and the tasks.loop stops.
Watchdog_SkipRaised ==
    \E found \in BOOLEAN :
        /\ ReadyFor(found)
        /\ LoopServicing
        /\ ~WatchdogBusy
        /\ TimedOut
        /\ GetQuizChannel(found) # None
        /\ ResetQuestionState
        /\ quiz_channel' = GetQuizChannel(found)
        /\ timer_running' = FALSE
        /\ timer_ticked' = TRUE
        /\ UNCHANGED <<active_session_id, store_vars, db_manager, channel_messages,
                       bot_ready, cog_loaded, config_vars, adapter_vars,
                       interaction_vars, task_vars>>

\* ------------------------------------------------------------ the bot's life cycle
\* The transport reports ready: wait_until_ready returns in every coroutine
\* that awaits it.
OnReady ==
    /\ ~bot_ready
    /\ bot_ready' = TRUE
    /\ UNCHANGED <<cog_vars, store_vars, db_manager, channel_messages, timer_running,
                   cog_loaded, timer_ticked, config_vars, adapter_vars,
                   interaction_vars, task_vars>>

\* The generate_and_post_new_question call a tick awaits when the loop's
\* task is cancelled: CancelledError is raised at its await and is no
\* Exception, so lines 229-238 do not catch it.
CancelledGeneration(gen) == IF gen.watchdog THEN IdleGen ELSE gen

\* cog_unload, lines 65-71, with the cog taken off the bot: the loop's task
\* is cancelled, whether it waits in before_loop, sleeps between two ticks or
\* is inside a tick.  A question embed whose send was under way may or may
\* not have reached the channel; its id is not stored.
CogUnload ==
    \E delivered \in BOOLEAN :
        /\ cog_loaded
        /\ cog_loaded' = FALSE
        /\ timer_running' = FALSE
        /\ generations' = [g \in GenIds |-> CancelledGeneration(generations[g])]
        /\ channel_messages' =
               IF /\ delivered
                  /\ channel_messages < MaxMessages
                  /\ \E g \in GenIds : generations[g].watchdog /\ generations[g].pc = "send"
               THEN channel_messages + 1
               ELSE channel_messages
        /\ UNCHANGED <<cog_vars, store_vars, db_manager, bot_ready, timer_ticked,
                       config_vars, adapter_vars, interaction_vars, answers,
                       session_start>>

\* ------------------------------------------------------------ the clock
\* An hour passes.
Tick ==
    /\ time_since_last_activity # NoTime
    /\ time_since_last_activity <= QUESTION_INACTIVITY_TIMEOUT_HOURS
    /\ time_since_last_activity' = time_since_last_activity + 1
    /\ UNCHANGED <<active_session_id, current_question_text,
                   current_question_intended_answer, current_question_difficulty,
                   current_question_points, current_question_message_id,
                   user_attempts, question_answered_by, quiz_channel,
                   store_vars, env_vars, task_vars>>

\* ------------------------------------------------------------ _openai_call_with_retry
\* The classes of the model that derive from Exception: what `except
\* Exception` catches.
Exceptions == {"APIConnectionError", "RateLimitError", "APIStatusError", "Exception",
               "NameError", "AttributeError", "TypeError", "JSONDecodeError"}

\* The status codes an APIStatusError is given in the model.
LlmStatusCodes == {400, 401, 403, 404, 429, 500}

\* a faulty variant: 404 is retried
NonRetriedStatus_Not404(status_code) == status_code \in {400, 401, 403, 429}

\* line 46
NonRetriedStatus(status_code) == status_code \in {400, 401, 403, 404, 429}

\* lines 35-62: the exception that leaves _openai_call_with_retry after the
\* request of this attempt raised.  A status error of line 46 is re-raised
\* at once; the last attempt raises what it caught (line 55); any other
\* attempt goes on to line 60, where `random` is no name of the module (it is
\* not imported, lines 1-6) and NameError is raised outside the try statement.
RetryFailure(kind, status_code, attempt) ==
    IF kind = "APIStatusError" /\ NonRetriedStatus(status_code) THEN "APIStatusError"
    ELSE IF attempt = OPENAI_MAX_RETRIES - 1 THEN kind
    ELSE "NameError"

\* ------------------------------------------------------------ generate_question, evaluate_answer
\* The JSON values a reply can hold: objects with their keys (and the value
\* of "status"), an array with its elements, a number.
LlmData ==
    {[type |-> "object", status |-> "",
      keys |-> {"question", "intended_answer", "difficulty_assessment"}],
     [type |-> "object", status |-> "", keys |-> {"question", "intended_answer"}],
     [type |-> "object", status |-> "Correct", keys |-> {"status", "explanation"}],
     [type |-> "object", status |-> "Maybe", keys |-> {"status", "explanation"}],
     [type |-> "object", status |-> "Correct", keys |-> {"status"}],
     [type |-> "array", status |-> "",
      keys |-> {"question", "intended_answer", "difficulty_assessment", "status",
                "explanation"}],
     [type |-> "number", status |-> "", keys |-> {}]}

\* A response: without choices, or with the content of the first choice:
\* None, or a text that is JSON or not, bare or behind a code fence that is
\* closed or not.
LlmResponses ==
    {[choices |-> FALSE, content |-> "None", fence |-> "", closed |-> FALSE, data |-> NoData],
     [choices |-> TRUE, content |-> "None", fence |-> "", closed |-> FALSE, data |-> NoData]}
    \cup
    {[choices |-> TRUE, content |-> c, fence |-> f, closed |-> cl, data |-> d] :
        c \in {"JSON"}, f \in {"", "fence json", "fence"}, cl \in BOOLEAN, d \in LlmData}
    \cup
    {[choices |-> TRUE, content |-> "text", fence |-> f, closed |-> TRUE, data |-> NoData] :
        f \in {"", "fence json"}}

\* lines 120-127, 200-207: the fence is cut off with the last three
\* characters, whether they are a fence or the end of the JSON text; then
\* json.loads
JsonLoads(response) ==
    IF response.content = "JSON" /\ (response.fence = "" \/ response.closed)
    THEN response.data
    ELSE NoData

\* the results of generate_question and evaluate_answer: an error dict
ErrorResult(message) == [raised |-> FALSE, error |-> message, data |-> NoData]

\* lines 139-141, 222-224: an exception raised inside the try statement is
\* turned into an error dict when its class derives from Exception
Caught(e) ==
    IF e \in Exceptions THEN ErrorResult(e)
    ELSE [raised |-> TRUE, error |-> e, data |-> NoData]

DataResult(d) == [raised |-> FALSE, error |-> "", data |-> d]

\* a faulty variant: the keys of the reply are not looked at
GenerateQuestionResult_AnyKeys(response) ==
    IF ~response.choices THEN ErrorResult("No response from OpenAI.")
    ELSE IF response.content = "None" THEN Caught("AttributeError")
    ELSE IF JsonLoads(response) = NoData THEN ErrorResult("JSONDecodeError")
    ELSE DataResult(JsonLoads(response))

\* lines 113-141 for a response of the request
GenerateQuestionResult(response) ==
    IF ~response.choices THEN ErrorResult("No response from OpenAI.")
    ELSE IF response.content = "None" THEN Caught("AttributeError")
    ELSE IF JsonLoads(response) = NoData THEN ErrorResult("JSONDecodeError")
    ELSE IF JsonLoads(response).type = "number" THEN Caught("TypeError")
    ELSE IF {"question", "intended_answer", "difficulty_assessment"}
                \subseteq JsonLoads(response).keys
    THEN DataResult(JsonLoads(response))
    ELSE ErrorResult("OpenAI response missing required keys.")

\* lines 196-224 for a response of the request: the status is read with
\* data["status"], which raises TypeError on an array
EvaluateAnswerResult(response) ==
    IF ~response.choices THEN ErrorResult("No response from OpenAI for eval.")
    ELSE IF response.content = "None" THEN Caught("AttributeError")
    ELSE IF JsonLoads(response) = NoData THEN ErrorResult("JSONDecodeError")
    ELSE IF JsonLoads(response).type = "number" THEN Caught("TypeError")
    ELSE IF {"status", "explanation"} \subseteq JsonLoads(response).keys
    THEN IF JsonLoads(response).type = "array" THEN Caught("TypeError")
         ELSE DataResult([JsonLoads(response) EXCEPT !.status =
                  evaluate_answer([kind |-> "json", status |-> @]).status])
    ELSE ErrorResult("OpenAI eval response missing required keys.")

\* a call of generate_question or evaluate_answer: the first request is made
\* (line 33)
OpenAI_Call ==
    \E method \in {"generate_question", "evaluate_answer"} :
        /\ openai_call.pc \in {"idle", "done"}
        /\ openai_call' = [IdleOpenAICall EXCEPT !.pc = "request", !.method = method,
                                                 !.requests = 1]
        /\ UNCHANGED <<cog_vars, store_vars, db_manager, channel_messages, timer_running,
                       lifecycle_vars,
                       config_vars, db_call, interaction_vars, task_vars>>

\* lines 34 and 113-138, 196-221: the request returned
OpenAI_Responded ==
    \E response \in LlmResponses :
        LET result == IF openai_call.method = "generate_question"
                      THEN GenerateQuestionResult(response)
                      ELSE EvaluateAnswerResult(response)
        IN  /\ openai_call.pc = "request"
            /\ openai_call' = [openai_call EXCEPT !.pc = "done", !.outcome = "response",
                                   !.raised = result.raised, !.error = result.error,
                                   !.data = result.data]
            /\ UNCHANGED <<cog_vars, store_vars, db_manager, channel_messages,
                           timer_running, lifecycle_vars, config_vars, db_call,
                           interaction_vars, task_vars>>

\* the call is over with the exception that left _openai_call_with_retry
\* (lines 139-141, 222-224)
OpenAICallFailed(kind, status_code) ==
    LET result == Caught(RetryFailure(kind, status_code, openai_call.attempt))
    IN  [openai_call EXCEPT !.pc = "done", !.outcome = kind,
                            !.status_code = status_code, !.raised = result.raised,
                            !.error = result.error, !.data = result.data]

\* lines 35-37
OpenAI_ConnectionError ==
    /\ openai_call.pc = "request"
    /\ openai_call' = OpenAICallFailed("APIConnectionError", 0)
    /\ UNCHANGED <<cog_vars, store_vars, db_manager, channel_messages, timer_running,
                       lifecycle_vars,
                   config_vars, db_call, interaction_vars, task_vars>>

\* lines 38-41: the sleep of the rate-limit handler
OpenAI_RateLimitError ==
    /\ openai_call.pc = "request"
    /\ openai_call' = [openai_call EXCEPT !.pc = "rate_limit_sleep",
                           !.outcome = "RateLimitError",
                           !.sleeps = Append(@, 5 * (openai_call.attempt + 1))]
    /\ UNCHANGED <<cog_vars, store_vars, db_manager, channel_messages, timer_running,
                       lifecycle_vars,
                   config_vars, db_call, interaction_vars, task_vars>>

\* lines 52-60 after the sleep of line 41
OpenAI_RateLimitSlept ==
    /\ openai_call.pc = "rate_limit_sleep"
    /\ openai_call' = OpenAICallFailed("RateLimitError", 0)
    /\ UNCHANGED <<cog_vars, store_vars, db_manager, channel_messages, timer_running,
                       lifecycle_vars,
                   config_vars, db_call, interaction_vars, task_vars>>

\* lines 42-47
OpenAI_StatusError ==
    \E status_code \in LlmStatusCodes :
        /\ openai_call.pc = "request"
        /\ openai_call' = OpenAICallFailed("APIStatusError", status_code)
        /\ UNCHANGED <<cog_vars, store_vars, db_manager, channel_messages, timer_running,
                       lifecycle_vars,
                       config_vars, db_call, interaction_vars, task_vars>>

\* lines 48-50
OpenAI_UnexpectedError ==
    /\ openai_call.pc = "request"
    /\ openai_call' = OpenAICallFailed("Exception", 0)
    /\ UNCHANGED <<cog_vars, store_vars, db_manager, channel_messages, timer_running,
                       lifecycle_vars,
                   config_vars, db_call, interaction_vars, task_vars>>

\* ------------------------------------------------------------ _db_call_with_retry
\* What one invocation of op_func (line 79) can come to: a response with
\* data, the value None, a response with neither error nor data, a response
\* with an error, a TypeError, any other exception.
DbSuccesses == {"data", "None", "response"}
DbFailures  == {"error response", "TypeError", "Exception"}

\* lines 85, 116, 119: the exception captured for a failed attempt
DbException(outcome) ==
    IF outcome = "error response" THEN "Exception: Supabase API error" ELSE outcome

\* a faulty variant: every wait is one second
DbBackoff_Constant(attempt) == 1

\* line 128
DbBackoff(attempt) == 1 * (attempt + 1)

\* lines 77-128: one turn of the loop, from op_func to the return, the
\* raise or the sleep.  op_func is called synchronously: the coroutine
\* suspends in the sleep only.
DbAttempt(call, outcome) ==
    IF outcome \in DbSuccesses
    THEN [call EXCEPT !.pc = "returned", !.invoked = @ + 1, !.outcome = outcome,
                      !.result = outcome]
    ELSE IF call.attempt = DB_MAX_RETRIES - 1
    THEN [call EXCEPT !.pc = "raised", !.invoked = @ + 1, !.outcome = outcome,
                      !.last_exception = DbException(outcome),
                      !.result = DbException(outcome)]
    ELSE [call EXCEPT !.pc = "sleeping", !.invoked = @ + 1, !.outcome = outcome,
                      !.last_exception = DbException(outcome),
                      !.waits = Append(@, DbBackoff(call.attempt))]

\* lines 71-73: no client, ConnectionError before the loop
DbCall_NoClient ==
    /\ db_call.pc \in {"idle", "returned", "raised"}
    /\ db_call' = [IdleDbCall EXCEPT !.pc = "raised", !.result = "ConnectionError"]
    /\ UNCHANGED <<cog_vars, store_vars, db_manager, channel_messages, timer_running,
                       lifecycle_vars,
                   config_vars, openai_call, interaction_vars, task_vars>>

\* lines 75-128: a call, up to the end of its first attempt
DbCall ==
    \E outcome \in DbSuccesses \cup DbFailures :
        /\ db_call.pc \in {"idle", "returned", "raised"}
        /\ db_call' = DbAttempt(IdleDbCall, outcome)
        /\ UNCHANGED <<cog_vars, store_vars, db_manager, channel_messages, timer_running,
                       lifecycle_vars,
                       config_vars, openai_call, interaction_vars, task_vars>>

\* lines 76-128: the sleep is over, the next attempt
DbCall_Retry ==
    \E outcome \in DbSuccesses \cup DbFailures :
        /\ db_call.pc = "sleeping"
        /\ db_call' = DbAttempt([db_call EXCEPT !.attempt = @ + 1], outcome)
        /\ UNCHANGED <<cog_vars, store_vars, db_manager, channel_messages, timer_running,
                       lifecycle_vars,
                       config_vars, openai_call, interaction_vars, task_vars>>

\* ------------------------------------------------------------ specification
\* /answer
AnswerSteps ==
    \/ ProcessUserAnswer_NoActive
    \/ ProcessUserAnswer_AlreadyAnswered
    \/ ProcessUserAnswer_AttemptsUsed
    \/ ProcessUserAnswer_Charge
    \/ ProcessUserAnswer_EvaluationFailed
    \/ ProcessUserAnswer_Evaluated
    \/ ProcessUserAnswer_ScoreUpdated
    \/ ProcessUserAnswer_ScoreRaised
    \/ ProcessUserAnswer_Announced
    \/ ProcessUserAnswer_AnnounceRaised

GenerateSteps ==
    \/ Generate_NoChannel
    \/ Generate_NoSession
    \/ Generate_Begin
    \/ Generate_Failed
    \/ Generate_Generated
    \/ Generate_Posted
    \/ Generate_SendFailed

\* /resetscores with a store that answers at its first attempt
SessionSteps ==
    \/ StartNewQuizSession_NoDatabase
    \/ StartNewQuizSession_Started
    \/ StartNewQuizSession_NotStarted

\* /resetscores with a store whose calls are retried
RetriedSessionSteps ==
    \/ StartNewQuizSession_Begin
    \/ StartNewQuizSession_Ended
    \/ StartNewQuizSession_Created
    \/ StartNewQuizSession_NoId
    \/ StartNewQuizSession_Raised
    \/ StartNewQuizSession_Returned

\* /skipquestion
SkipSteps ==
    \/ SkipQuestionCommand_NoQuestion
    \/ SkipQuestionCommand

WatchdogSteps ==
    \/ Watchdog_Idle
    \/ Watchdog_Timeout
    \/ Watchdog_SkipRaised
    \/ Tick

Next ==
    \/ AnswerSteps
    \/ GenerateSteps
    \/ SessionSteps
    \/ RetriedSessionSteps
    \/ SkipSteps
    \/ WatchdogSteps

Spec == Init /\ [][Next]_vars

\* One round: at most one generate_and_post_new_question coroutine at a
\* time and one posted question.
SingleRound ==
    /\ channel_messages <= 1
    /\ Cardinality({g \in GenIds : generations[g].pc # "idle"}) <= 1

\* The game while the clock stands still and the store answers every session
\* call at its first attempt, one round of it.
NextAnswers ==
    \/ ProcessUserAnswer_NoActive /\ SingleRound'
    \/ ProcessUserAnswer_AlreadyAnswered /\ SingleRound'
    \/ ProcessUserAnswer_AttemptsUsed /\ SingleRound'
    \/ ProcessUserAnswer_Charge /\ SingleRound'
    \/ ProcessUserAnswer_EvaluationFailed /\ SingleRound'
    \/ ProcessUserAnswer_Evaluated /\ SingleRound'
    \/ ProcessUserAnswer_ScoreUpdated /\ SingleRound'
    \/ ProcessUserAnswer_ScoreRaised /\ SingleRound'
    \/ ProcessUserAnswer_Announced /\ SingleRound'
    \/ ProcessUserAnswer_AnnounceRaised /\ SingleRound'
    \/ Generate_NoChannel /\ SingleRound'
    \/ Generate_NoSession /\ SingleRound'
    \/ Generate_Begin /\ SingleRound'
    \/ Generate_Failed /\ SingleRound'
    \/ Generate_Generated /\ SingleRound'
    \/ Generate_Posted /\ SingleRound'
    \/ Generate_SendFailed /\ SingleRound'
    \/ StartNewQuizSession_NoDatabase /\ SingleRound'
    \/ StartNewQuizSession_Started /\ SingleRound'
    \/ StartNewQuizSession_NotStarted /\ SingleRound'
    \/ SkipQuestionCommand_NoQuestion /\ SingleRound'
    \/ SkipQuestionCommand /\ SingleRound'

SpecAnswers == Init /\ [][NextAnswers]_vars

\* One player, and one coroutine of a kind at a time.
OnePlayer ==
    /\ Cardinality({g \in GenIds : generations[g].pc # "idle"}) <= 1
    /\ Cardinality({c \in AnswerIds : answers[c].pc # "idle"}) <= 1
    /\ \A key \in DOMAIN user_attempts : DOMAIN user_attempts[key] \subseteq {1}

\* The game under the clock and the inactivity timer, without admin skips:
\* one player, two rounds.
NextWatchdog ==
    \/ ProcessUserAnswer_NoActive /\ OnePlayer'
    \/ ProcessUserAnswer_AlreadyAnswered /\ OnePlayer'
    \/ ProcessUserAnswer_AttemptsUsed /\ OnePlayer'
    \/ ProcessUserAnswer_Charge /\ OnePlayer'
    \/ ProcessUserAnswer_EvaluationFailed /\ OnePlayer'
    \/ ProcessUserAnswer_Evaluated /\ OnePlayer'
    \/ ProcessUserAnswer_ScoreUpdated /\ OnePlayer'
    \/ ProcessUserAnswer_ScoreRaised /\ OnePlayer'
    \/ ProcessUserAnswer_Announced /\ OnePlayer'
    \/ ProcessUserAnswer_AnnounceRaised /\ OnePlayer'
    \/ Generate_NoChannel /\ OnePlayer'
    \/ Generate_NoSession /\ OnePlayer'
    \/ Generate_Begin /\ OnePlayer'
    \/ Generate_Failed /\ OnePlayer'
    \/ Generate_Generated /\ OnePlayer'
    \/ Generate_Posted /\ OnePlayer'
    \/ Generate_SendFailed /\ OnePlayer'
    \/ StartNewQuizSession_NoDatabase /\ OnePlayer'
    \/ StartNewQuizSession_Started /\ OnePlayer'
    \/ StartNewQuizSession_NotStarted /\ OnePlayer'
    \/ Watchdog_Idle /\ OnePlayer'
    \/ Watchdog_Timeout /\ OnePlayer'
    \/ Watchdog_SkipRaised /\ OnePlayer'
    \/ Tick /\ OnePlayer'

SpecWatchdog == Init /\ [][NextWatchdog]_vars

\* The admin commands and the generations they call, nobody answering.
SpecPosts == Init /\ [][GenerateSteps \/ SessionSteps \/ SkipSteps]_vars

\* The two adapters on their own: calls of the LLM adapter and of the store
\* adapter's retry loop, one after the other.
OpenAISteps ==
    \/ OpenAI_Call
    \/ OpenAI_Responded
    \/ OpenAI_ConnectionError
    \/ OpenAI_RateLimitError
    \/ OpenAI_RateLimitSlept
    \/ OpenAI_StatusError
    \/ OpenAI_UnexpectedError

DbSteps ==
    \/ DbCall_NoClient
    \/ DbCall
    \/ DbCall_Retry

SpecAdapters == Init /\ [][OpenAISteps \/ DbSteps]_vars

\* /resetscores under every admin list and owner, invokers turned away
\* included, with a store whose calls may be retried.
SpecSessions ==
    InitAdmin /\ [][GenerateSteps \/ SessionSteps \/ RetriedSessionSteps
                    \/ ResetScoresCommand_Denied]_vars

\* Both admin commands under every admin list and owner.
DeniedSteps ==
    \/ ResetScoresCommand_Denied
    \/ SkipQuestionCommand_Denied

SpecAdmin ==
    InitAdmin /\ [][GenerateSteps \/ SessionSteps \/ RetriedSessionSteps
                    \/ SkipSteps \/ DeniedSteps]_vars

\* One player answering, one process_user_answer call at a time.
OneAnswerer ==
    /\ Cardinality({c \in AnswerIds : answers[c].pc # "idle"}) <= 1
    /\ \A key \in DOMAIN user_attempts : DOMAIN user_attempts[key] \subseteq {1}

\* The game while the clock stands still, with generations that overlap:
\* one player, the admin commands, up to MaxGens generations at once.
NextOverlap ==
    \/ ProcessUserAnswer_NoActive /\ OneAnswerer'
    \/ ProcessUserAnswer_AlreadyAnswered /\ OneAnswerer'
    \/ ProcessUserAnswer_AttemptsUsed /\ OneAnswerer'
    \/ ProcessUserAnswer_Charge /\ OneAnswerer'
    \/ ProcessUserAnswer_EvaluationFailed /\ OneAnswerer'
    \/ ProcessUserAnswer_Evaluated /\ OneAnswerer'
    \/ ProcessUserAnswer_ScoreUpdated /\ OneAnswerer'
    \/ ProcessUserAnswer_ScoreRaised /\ OneAnswerer'
    \/ ProcessUserAnswer_Announced /\ OneAnswerer'
    \/ ProcessUserAnswer_AnnounceRaised /\ OneAnswerer'
    \/ Generate_NoChannel /\ OneAnswerer'
    \/ Generate_NoSession /\ OneAnswerer'
    \/ Generate_Begin /\ OneAnswerer'
    \/ Generate_Failed /\ OneAnswerer'
    \/ Generate_Generated /\ OneAnswerer'
    \/ Generate_Posted /\ OneAnswerer'
    \/ Generate_SendFailed /\ OneAnswerer'
    \/ StartNewQuizSession_NoDatabase /\ OneAnswerer'
    \/ StartNewQuizSession_Started /\ OneAnswerer'
    \/ StartNewQuizSession_NotStarted /\ OneAnswerer'
    \/ SkipQuestionCommand_NoQuestion /\ OneAnswerer'
    \/ SkipQuestionCommand /\ OneAnswerer'

SpecOverlap == Init /\ [][NextOverlap]_vars

\* From the construction of the cog to its unloading: the bot becomes ready,
\* sessions are started, questions posted, time passes and the timer ticks;
\* nobody answers or skips.
LifecycleSteps ==
    \/ OnReady
    \/ CogUnload

SpecLifecycle ==
    InitStartup /\ [][LifecycleSteps \/ SessionSteps \/ GenerateSteps
                      \/ WatchdogSteps]_vars

\* ------------------------------------------------------------ properties
RECURSIVE SumSeq(_)
SumSeq(q) == IF q = <<>> THEN 0 ELSE Head(q) + SumSeq(Tail(q))

RECURSIVE SumCounts(_)
SumCounts(m) ==
    IF DOMAIN m = {} THEN 0
    ELSE LET u == CHOOSE x \in DOMAIN m : TRUE
         IN  m[u] + SumCounts([x \in DOMAIN m \ {u} |-> m[x]])

\* the question fields as _reset_question_state leaves them, in the next state
QuestionStateReset ==
    /\ current_question_text' = None
    /\ current_question_intended_answer' = None
    /\ current_question_message_id' = None
    /\ current_question_points' = 0
    /\ time_since_last_activity' = NoTime
    /\ user_attempts' = EmptyDict
    /\ question_answered_by' = None

\* C1: an evaluation that completes for the current question after another
\* user was set as its resolver calls update_score no more, and the resolver
\* of a question never changes once set.  (The code does not look at the resolver again
\* after the await of evaluate_answer.)
C1_ResolverClaimedOnce ==
    [][/\ \A c \in AnswerIds :
              (/\ answers[c].pc = "evaluate_answer"
               /\ answers[c].key = current_question_message_id
               /\ question_answered_by # None
               /\ question_answered_by # answers[c].user)
              => answers'[c].pc # "update_score"
       /\ (/\ question_answered_by # None
           /\ current_question_message_id # None
           /\ current_question_message_id' = current_question_message_id)
          => question_answered_by' = question_answered_by]_vars

\* C2: whenever the current question has a resolver, a call of
\* process_user_answer is answered with the already-answered message by the
\* checks that come before any effect.
C2_AlreadyAnsweredReply ==
    (question_answered_by # None /\ current_question_message_id # None)
        => \A u \in Users : EarlyReturn(u) = "already answered"

\* C3: every recorded attempt count lies in 0..MAX_ATTEMPTS_PER_QUESTION, and
\* the counts of one question sum to at most MAX_ATTEMPTS_PER_QUESTION times
\* the number of users who attempted it.
C3_AttemptsWithinBounds ==
    \A key \in DOMAIN user_attempts :
        /\ \A u \in DOMAIN user_attempts[key] :
               /\ user_attempts[key][u] >= 0
               /\ user_attempts[key][u] <= MAX_ATTEMPTS_PER_QUESTION
        /\ SumCounts(user_attempts[key])
               <= MAX_ATTEMPTS_PER_QUESTION * Cardinality(DOMAIN user_attempts[key])

\* C3, its case: on the current question one user has used every attempt
\* while another one is back at 0 after a refund.
C3_Witness ==
    /\ current_question_message_id \in DOMAIN user_attempts
    /\ \E u, v \in DOMAIN user_attempts[current_question_message_id] :
           /\ user_attempts[current_question_message_id][u] = MAX_ATTEMPTS_PER_QUESTION
           /\ user_attempts[current_question_message_id][v] = 0

\* C4: whenever an evaluation is in flight, its failure is answered with the
\* try-again message: the attempt charged for it can be given back.
C4_FailedEvaluationReply ==
    \A c \in AnswerIds :
        answers[c].pc = "evaluate_answer"
            => EvaluationFailedReturn(user_attempts, answers[c].key, answers[c].user)
                   = "could not evaluate"

\* C5 as amended: a call by a user whose count for the current question has
\* reached MAX_ATTEMPTS_PER_QUESTION never goes on to charge and evaluate; it
\* is answered with the used-all-attempts message when a session is active
\* and the question has no resolver, with the already-answered message when
\* it has one, and with the nothing-active message without a session.
C5_ExhaustedUserReply ==
    \A u \in Users :
        (/\ current_question_message_id # None
         /\ AttemptCount(user_attempts, current_question_message_id, u)
                >= MAX_ATTEMPTS_PER_QUESTION)
        => EarlyReturn(u) =
               IF active_session_id = None THEN "no active question"
               ELSE IF question_answered_by # None THEN "already answered"
               ELSE "attempts used"

\* C5, its case: a user with no attempt left on an unresolved question of an
\* active session, the used-all-attempts reply having refreshed the
\* last-activity time.
C5_Witness ==
    \E u \in Users :
        /\ active_session_id # None
        /\ current_question_message_id # None
        /\ question_answered_by = None
        /\ AttemptCount(user_attempts, current_question_message_id, u)
               = MAX_ATTEMPTS_PER_QUESTION
        /\ EarlyReturn(u) = "attempts used"
        /\ time_since_last_activity = 0

\* C5 as stated: with a current question in an active session, a user whose
\* count has reached MAX_ATTEMPTS_PER_QUESTION is always answered with the
\* used-all-attempts message.
C5_AlwaysUsedAllAttempts ==
    \A u \in Users :
        (/\ active_session_id # None
         /\ current_question_message_id # None
         /\ AttemptCount(user_attempts, current_question_message_id, u)
                >= MAX_ATTEMPTS_PER_QUESTION)
        => EarlyReturn(u) = "attempts used"

\* the step in which evaluate_answer returns to slot c and update_score is
\* called
CallsUpdateScore(c) ==
    answers[c].pc = "evaluate_answer" /\ answers'[c].pc = "update_score"

\* the step in which update_score returns to slot c
UpdateScoreReturns(c) ==
    /\ answers[c].pc = "update_score"
    /\ answers'[c].pc # "update_score"
    /\ updates' = updates + 1

\* the row update_score was called for by slot c
ScoreKey(c) == <<answers[c].user, answers[c].sess>>

\* C6: an evaluation that returns 'correct' makes one update_score call, for
\* the user and the active session, with the current question's points; when
\* the call returns the row has grown by that delta, the user is the resolver
\* and the call is not made again.
C6_CorrectAward ==
    [][\A c \in AnswerIds :
          /\ (CallsUpdateScore(c) /\ answers'[c].status = "correct")
             => /\ answers'[c].delta = current_question_points
                /\ answers'[c].sess = active_session_id
                /\ answers'[c].user = answers[c].user
          /\ (UpdateScoreReturns(c) /\ answers[c].status = "correct")
             => /\ scores'[ScoreKey(c)]
                    = DictGet(scores, ScoreKey(c), 0) + answers[c].delta
                /\ question_answered_by' = answers[c].user
                /\ answers'[c].pc = "announce"]_vars

\* C6, its case: a correct answer to a question worth points has been scored
\* and its user is the resolver.
C6_Witness ==
    \E c \in AnswerIds :
        /\ answers[c].pc = "announce"
        /\ answers[c].status = "correct"
        /\ question_answered_by = answers[c].user
        /\ current_question_points = POINTS_DIFFICULT
        /\ <<answers[c].user, active_session_id>> \in DOMAIN scores
        /\ scores[<<answers[c].user, active_session_id>>] = POINTS_DIFFICULT

\* C7 as amended: a partially correct answer is awarded round(points / 2)
\* with a half rounded to the even neighbour, 0 of 1 point, 1 of 2 points and
\* 2 of 5 points, and when update_score returns the user is the resolver.
C7_PartialAward ==
    [][\A c \in AnswerIds :
          /\ (CallsUpdateScore(c) /\ answers'[c].status = "partially correct")
             => /\ current_question_points = POINTS_EASY => answers'[c].delta = 0
                /\ current_question_points = POINTS_MEDIUM => answers'[c].delta = 1
                /\ current_question_points = POINTS_DIFFICULT => answers'[c].delta = 2
          /\ (UpdateScoreReturns(c) /\ answers[c].status = "partially correct")
             => /\ scores'[ScoreKey(c)]
                    = DictGet(scores, ScoreKey(c), 0) + answers[c].delta
                /\ question_answered_by' = answers[c].user]_vars

\* C7, its case: a partially correct answer to a 5-point question has been
\* scored with 2 points and its user is the resolver.
C7_Witness ==
    \E c \in AnswerIds :
        /\ answers[c].pc = "announce"
        /\ answers[c].status = "partially correct"
        /\ question_answered_by = answers[c].user
        /\ current_question_points = POINTS_DIFFICULT
        /\ <<answers[c].user, active_session_id>> \in DOMAIN applied
        /\ applied[<<answers[c].user, active_session_id>>] = <<2>>

\* C7 as stated: a partially correct answer is awarded 0 of 1 point, 1 of 2
\* points and 3 of 5 points.
C7_TierTable ==
    [][\A c \in AnswerIds :
          (CallsUpdateScore(c) /\ answers'[c].status = "partially correct")
          => /\ current_question_points = POINTS_EASY => answers'[c].delta = 0
             /\ current_question_points = POINTS_MEDIUM => answers'[c].delta = 1
             /\ current_question_points = POINTS_DIFFICULT => answers'[c].delta = 3]_vars

\* C8: an answer evaluated as incorrect is scored with
\* -POINTS_DEDUCTION_INCORRECT, and when update_score returns no resolver is
\* set, no next question is scheduled and the call is over.
C8_IncorrectOnlyDeducts ==
    [][\A c \in AnswerIds :
          /\ (CallsUpdateScore(c) /\ answers'[c].status = "incorrect")
             => answers'[c].delta = 0 - POINTS_DEDUCTION_INCORRECT
          /\ (UpdateScoreReturns(c) /\ answers[c].status = "incorrect")
             => /\ question_answered_by' = question_answered_by
                /\ generations' = generations
                /\ answers'[c].pc = "idle"]_vars

\* C9: every stored score is the sum of the deltas update_score applied to
\* its key, and there is a row exactly for the keys a delta was applied to.
C9_ScoreIsSumOfDeltas ==
    /\ DOMAIN scores = DOMAIN applied
    /\ \A k \in DOMAIN scores : scores[k] = SumSeq(applied[k])

\* C9, its case: a penalty inserted as the first value of a row and a
\* 5-point award added to it.
C9_Witness ==
    \E k \in DOMAIN scores :
        /\ applied[k] = <<0 - POINTS_DEDUCTION_INCORRECT, POINTS_DIFFICULT>>
        /\ scores[k] = 3

\* the step in which start_new_quiz_session, never suspended, got a fresh
\* session id from create_quiz_session
SessionCreatedAtOnce ==
    /\ session_start.pc = "idle"
    /\ session_start'.pc = "idle"
    /\ \E id \in DOMAIN quiz_sessions' \ DOMAIN quiz_sessions :
           quiz_sessions'[id] = "open"

\* C10: when start_new_quiz_session returns with a store that answered its
\* calls, active_session_id is a fresh id, different from None and from its
\* value before the call, and the question state is reset.
C10_SessionStarted ==
    [][SessionCreatedAtOnce
       => /\ active_session_id' # None
          /\ active_session_id' # active_session_id
          /\ active_session_id' \notin DOMAIN quiz_sessions
          /\ active_session_id' \in DOMAIN quiz_sessions'
          /\ quiz_sessions'[active_session_id'] = "open"
          /\ QuestionStateReset]_vars

\* C10, its case: a second session was started over a session whose question
\* had been posted and attempted.
C10_Witness ==
    /\ active_session_id = MaxSessions
    /\ quiz_sessions[1] = "ended"
    /\ channel_messages > 0
    /\ updates > 0
    /\ current_question_message_id = None
    /\ user_attempts = EmptyDict
    /\ question_answered_by = None

\* a generate_and_post_new_question call is created in this step
GenerationScheduled ==
    \E g \in GenIds : generations[g].pc = "idle" /\ generations'[g].pc = "scheduled"

\* the generation coroutines stay as they are, but for calls created
GenerationsOnlyScheduled ==
    \A g \in GenIds :
        \/ generations'[g] = generations[g]
        \/ generations[g].pc = "idle" /\ generations'[g].pc = "scheduled"

\* the step in which skip_current_question resets an active question: the
\* session stays, the message id is cleared and no generation coroutine moves
\* on (generate_and_post_new_question resets the slot too, line 180)
SkipResets ==
    /\ current_question_message_id # None
    /\ active_session_id # None
    /\ active_session_id' = active_session_id
    /\ current_question_message_id' = None
    /\ GenerationsOnlyScheduled

\* no process_user_answer call gets as far as evaluate_answer in this step
NoEvaluationStarted ==
    \A c \in AnswerIds : answers[c].pc = "idle" => answers'[c].pc = "idle"

\* no attempt count grows in this step
NoAttemptCharged ==
    \A key \in DOMAIN user_attempts' :
        \A u \in DOMAIN user_attempts'[key] :
            /\ key \in DOMAIN user_attempts
            /\ u \in DOMAIN user_attempts[key]
            /\ user_attempts'[key][u] <= user_attempts[key][u]

\* C11: once skip_current_question has reset the question, and for as long
\* as no question is posted, a call of process_user_answer is answered with
\* the nothing-active message, and no step charges an attempt or starts an
\* evaluation.
C11_AnswerAfterSkip ==
    [][/\ SkipResets
          => \A u \in Users : EarlyReturn(u)' = "no active question"
       /\ current_question_message_id = None
          => /\ \A u \in Users : EarlyReturn(u) = "no active question"
             /\ NoEvaluationStarted
             /\ NoAttemptCharged]_vars

\* C11, its case: the first session's only question was skipped without an
\* answer scored, the session is still active and the admin command's
\* generation has not run yet.
C11_Witness ==
    /\ active_session_id = 1
    /\ channel_messages = 1
    /\ current_question_message_id = None
    /\ updates = 0
    /\ \E g \in GenIds : generations[g].pc = "scheduled"
    /\ \A u \in Users : EarlyReturn(u) = "no active question"

\* C12: skip_current_question on an active question empties the slot, keeps
\* the session, leaves the store, the channel's questions and the calls in
\* flight alone, and creates no generation of its own: the generations stay
\* as they are, or the caller creates one after its reply.
C12_SkipEmptiesSlot ==
    [][SkipResets
       => /\ QuestionStateReset
          /\ current_question_difficulty' = ""
          /\ UNCHANGED <<active_session_id, quiz_sessions, scores, applied, updates,
                         channel_messages, answers>>
          /\ Cardinality({g \in GenIds : generations'[g] # generations[g]}) <= 1]_vars

\* C12, its case: a resolved question was skipped, the slot is empty, the
\* session and the score stay, and no generation was created.
C12_Witness ==
    /\ active_session_id = 1
    /\ channel_messages = 1
    /\ current_question_message_id = None
    /\ current_question_text = None
    /\ user_attempts = EmptyDict
    /\ question_answered_by = None
    /\ updates = 1
    /\ \A g \in GenIds : generations[g].pc = "idle"
    /\ \A c \in AnswerIds : answers[c].pc = "announce"
                            => ResolvingStatus(answers[c].status)
    /\ \E c \in AnswerIds : answers[c].pc = "announce"

\* C13: with no current question or no active session, a step that is not a
\* session start, an answer in flight or a generation moving on (so a
\* skip_current_question call among them) changes neither the question state
\* nor the channel nor the store.
C13_NothingToSkip ==
    [][(/\ current_question_message_id = None \/ active_session_id = None
        /\ UNCHANGED <<active_session_id, quiz_sessions, answers>>
        /\ GenerationsOnlyScheduled)
       => UNCHANGED <<question_vars, quiz_channel, channel_messages, scores, applied,
                      updates>>]_vars

\* C13, its case: a posted question without an active session, the skip
\* command's generation created after the 'No active question to skip.'
\* reply.
C13_Witness ==
    /\ current_question_message_id # None
    /\ active_session_id = None
    /\ NothingToSkip
    /\ current_question_text # None
    /\ time_since_last_activity = 0
    /\ \E g \in GenIds : generations[g].pc = "scheduled"

\* C14: with no current question or no active session, process_user_answer
\* is answered with the nothing-active message, and no step starts an
\* evaluation, charges an attempt or refreshes the last-activity time (only
\* the posting of a question sets it).
C14_NothingActive ==
    [][(current_question_message_id = None \/ active_session_id = None)
       => /\ \A u \in Users : EarlyReturn(u) = "no active question"
          /\ NoEvaluationStarted
          /\ NoAttemptCharged
          /\ (time_since_last_activity' = 0 /\ time_since_last_activity # 0)
             => channel_messages' # channel_messages]_vars

\* C14, its case: a posted question with attempts made, its session gone, and
\* every user answered with the nothing-active message.
C14_Witness ==
    /\ current_question_message_id # None
    /\ active_session_id = None
    /\ current_question_message_id \in DOMAIN user_attempts
    /\ \E u \in DOMAIN user_attempts[current_question_message_id] :
           user_attempts[current_question_message_id][u] > 0
    /\ \A u \in Users : EarlyReturn(u) = "no active question"

\* C18: a process_user_answer call that has set the resolver and is over
\* with the announcement has created a generate_and_post_new_question call,
\* whatever came of the announcement.
C18_ResolutionSchedulesNext ==
    [][\A c \in AnswerIds :
          (/\ answers[c].pc = "announce"
           /\ ResolvingStatus(answers[c].status)
           /\ answers'[c].pc = "idle")
          => GenerationScheduled]_vars

\* C20: a generation that ends with the channel unresolved changes nothing
\* else; one that ends for want of an active session changes no more than
\* the cached channel; and none of them goes on to generate_question.
C20_GenerationGuards ==
    [][\A g \in GenIds :
          /\ (/\ generations[g].pc = "scheduled"
              /\ generations'[g].pc = "idle"
              /\ quiz_channel' = None)
             => UNCHANGED <<cog_vars, store_vars, env_vars, answers, session_start>>
          /\ (/\ generations[g].pc = "scheduled"
              /\ generations'[g].pc = "idle"
              /\ active_session_id = None)
             => UNCHANGED <<active_session_id, question_vars, store_vars, env_vars,
                            answers, session_start>>
          /\ (/\ generations[g].pc = "scheduled"
              /\ generations'[g].pc = "generate_question")
             => /\ active_session_id # None
                /\ quiz_channel' # None]_vars

\* C20, its case: a generation has ended with the notice, the channel
\* resolved, next to a posted question that has lost its session.
C20_Witness ==
    /\ active_session_id = None
    /\ quiz_channel # None
    /\ current_question_message_id # None
    /\ current_question_text # None
    /\ \A g \in GenIds : generations[g].pc = "idle"
    /\ \E id \in DOMAIN quiz_sessions : quiz_sessions[id] = "open, id not returned"

\* the step of a tick of question_inactivity_timer that goes on to
\* skip_current_question: the timer runs, the question has timed out and is
\* reset, the session stays and no generation coroutine moves on.  (Without
\* admin skips no other step does this.)
WatchdogSkips ==
    /\ timer_running
    /\ active_session_id # None
    /\ current_question_message_id # None
    /\ question_answered_by = None
    /\ time_since_last_activity > QUESTION_INACTIVITY_TIMEOUT_HOURS
    /\ current_question_message_id' = None
    /\ active_session_id' = active_session_id
    /\ GenerationsOnlyScheduled

\* the generate_and_post_new_question calls of the timer that are created in
\* this step
WatchdogGenerationsCreated ==
    {g \in GenIds : generations'[g].watchdog /\ ~generations[g].watchdog}

\* a step in which the timer does something: it creates its generation, or
\* it stops
WatchdogActs ==
    \/ WatchdogGenerationsCreated # {}
    \/ timer_running /\ ~timer_running'

\* C15: a tick that finds a timed-out unresolved question resets it and
\* creates exactly one generation; the timer has at most one generation in
\* flight, and when that generation posts the replacement the question is
\* not timed out.
C15_TimeoutTick ==
    [][/\ WatchdogSkips
          => /\ QuestionStateReset
             /\ Cardinality(WatchdogGenerationsCreated) = 1
             /\ timer_running'
       /\ Cardinality({g \in GenIds : generations'[g].watchdog}) <= 1
       /\ \A g \in GenIds :
              (/\ generations[g].watchdog
               /\ generations[g].pc = "send"
               /\ channel_messages' # channel_messages)
              => /\ time_since_last_activity' = 0
                 /\ ~TimedOut']_vars

\* C16: the timer does something only in a state with an active session and
\* a current question that has no resolver.
C16_WatchdogNoOp ==
    [][WatchdogActs
       => /\ active_session_id # None
          /\ current_question_message_id # None
          /\ question_answered_by = None]_vars

\* C16, its case: a resolved question is still current long after the
\* timeout, the timer running and its ticks finding nothing to do.
C16_Witness ==
    /\ timer_running
    /\ ~WatchdogBusy
    /\ active_session_id # None
    /\ current_question_message_id # None
    /\ question_answered_by # None
    /\ time_since_last_activity > QUESTION_INACTIVITY_TIMEOUT_HOURS
    /\ ~TimedOut

\* C17: the timer skips only when the last-activity time lies more than
\* QUESTION_INACTIVITY_TIMEOUT_HOURS back; that time starts anew with the
\* posting and with every call of process_user_answer that gets past the
\* checks of lines 257 and 260 (one turned away for its attempts included), a
\* failed evaluation does not bring it back, and otherwise it only grows
\* with the clock.
C17_ActivityDeadline ==
    [][/\ WatchdogActs
          => time_since_last_activity > QUESTION_INACTIVITY_TIMEOUT_HOURS
       /\ \A c \in AnswerIds :
              /\ (answers[c].pc = "idle" /\ answers'[c].pc = "evaluate_answer")
                 => time_since_last_activity' = 0
              /\ (answers[c].pc = "evaluate_answer" /\ answers'[c].pc = "idle")
                 => time_since_last_activity' = time_since_last_activity
       /\ ProcessUserAnswer_AttemptsUsed => time_since_last_activity' = 0
       /\ time_since_last_activity' # time_since_last_activity
          => \/ time_since_last_activity' \in {0, NoTime}
             \/ /\ time_since_last_activity # NoTime
                /\ time_since_last_activity' = time_since_last_activity + 1
                /\ UNCHANGED <<active_session_id, current_question_message_id,
                               user_attempts, question_answered_by, store_vars,
                               env_vars, task_vars>>]_vars

\* C17, its case: the only question posted got an answer that was scored,
\* and the timer has skipped it after the timeout that began with that
\* answer.
C17_Witness ==
    /\ channel_messages = 1
    /\ updates = 1
    /\ timer_running
    /\ current_question_message_id = None
    /\ \E g \in GenIds : generations[g].watchdog /\ generations[g].pc = "scheduled"

\* C19: a question is posted only into a slot whose question, if it still
\* holds one, was resolved: no question is posted over a current question
\* that was neither resolved nor skipped nor ended by a session start.
C19_OnePostPerTransition ==
    [][channel_messages' # channel_messages
       => \/ current_question_message_id = None
          \/ question_answered_by # None]_vars

\* the step in which generation g, suspended in generate_question, is over
\* without having stored a question: generate_question returned an error
GenerationAborted(g) ==
    /\ generations[g].pc = "generate_question"
    /\ generations'[g].pc = "idle"
    /\ current_question_text' = current_question_text

\* C21: a generation that gets an error from generate_question posts no
\* question, is over without another generate_question call of its own or
\* of a new generation, and leaves the slot empty: no message id, no
\* attempts, no resolver.
C21_GenerationAborts ==
    [][\A g \in GenIds :
          GenerationAborted(g)
          => /\ channel_messages' = channel_messages
             /\ generations' = [generations EXCEPT ![g] = IdleGen]
             /\ current_question_message_id' = None
             /\ user_attempts' = EmptyDict
             /\ question_answered_by' = None]_vars

\* C22: every current question is worth the points of its lower-cased
\* difficulty assessment, one of POINTS_EASY, POINTS_MEDIUM and
\* POINTS_DIFFICULT.
C22_PointsOfCurrentQuestion ==
    current_question_message_id # None
    => /\ current_question_points = QuestionPoints(current_question_difficulty)
       /\ current_question_points \in {POINTS_EASY, POINTS_MEDIUM, POINTS_DIFFICULT}


\* C23: a generate_question or evaluate_answer call whose request failed
\* with a connection error or a rate-limit error is not over unless that was
\* the last of the OPENAI_MAX_RETRIES attempts: before that, another request
\* follows.
C23_RetriedUntilExhausted ==
    (/\ openai_call.pc = "done"
     /\ openai_call.outcome \in {"APIConnectionError", "RateLimitError"})
    => /\ openai_call.attempt = OPENAI_MAX_RETRIES - 1
       /\ openai_call.requests = OPENAI_MAX_RETRIES

\* C24: a request that raises a status error with code 400, 401, 403 or 404
\* ends the call in the same step: no sleep, no further request, and the
\* caller is given the error result that carries the status error.
C24_StatusErrorNotRetried ==
    [][(/\ openai_call.pc = "request"
        /\ openai_call'.outcome = "APIStatusError"
        /\ openai_call'.status_code \in {400, 401, 403, 404})
       => /\ openai_call'.pc = "done"
          /\ openai_call'.requests = openai_call.requests
          /\ openai_call'.sleeps = <<>>
          /\ ~openai_call'.raised
          /\ openai_call'.error = "APIStatusError"
          /\ openai_call'.data = NoData]_vars

\* C24, its case: a generate_question call is over after one request that
\* was answered with status 404.
C24_Witness ==
    /\ openai_call.pc = "done"
    /\ openai_call.method = "generate_question"
    /\ openai_call.outcome = "APIStatusError"
    /\ openai_call.status_code = 404
    /\ openai_call.requests = 1
    /\ openai_call.error = "APIStatusError"

C26_StoreRetryLoop ==
    [][/\ db_call'.invoked <= DB_MAX_RETRIES
       /\ \A k \in 1..Len(db_call'.waits) : db_call'.waits[k] = k
       /\ db_call'.pc = "returned"
          => /\ db_call'.outcome \in {"data", "None", "response"}
             /\ db_call'.result = db_call'.outcome
             /\ Len(db_call'.waits) = db_call'.invoked - 1
       /\ (db_call.pc \in {"returned", "raised"} /\ db_call' # db_call)
          => db_call'.attempt = 0 /\ db_call'.invoked <= 1
       /\ (db_call.pc = "sleeping" /\ db_call' # db_call)
          => /\ db_call'.invoked = db_call.invoked + 1
             /\ db_call'.attempt = db_call.attempt + 1
       /\ (/\ db_call'.outcome \in {"error response", "TypeError", "Exception"}
           /\ db_call'.invoked < DB_MAX_RETRIES)
          => /\ db_call'.pc = "sleeping"
             /\ Len(db_call'.waits) = db_call'.invoked
       /\ (db_call'.pc = "raised" /\ db_call'.invoked > 0)
          => /\ db_call'.invoked = DB_MAX_RETRIES
             /\ Len(db_call'.waits) = DB_MAX_RETRIES - 1
             /\ db_call'.result =
                    IF db_call'.outcome = "error response"
                    THEN "Exception: Supabase API error"
                    ELSE db_call'.outcome
             /\ db_call'.outcome \in {"error response", "TypeError", "Exception"}]_vars

\* C26, its case: a call has raised after DB_MAX_RETRIES attempts, the last
\* of which got a response with an error.
C26_Witness ==
    /\ db_call.pc = "raised"
    /\ db_call.invoked = DB_MAX_RETRIES
    /\ Len(db_call.waits) = DB_MAX_RETRIES - 1
    /\ db_call.outcome = "error response"
    /\ db_call.result = "Exception: Supabase API error"


\* the invoker of the latest command, in the next state, against the
\* configured admin list and the bot owner
InvokerAuthorised ==
    IF admin_ids = {} THEN interaction_user' = owner_id
    ELSE interaction_user' \in admin_ids \/ interaction_user' = owner_id

\* C27: /resetscores and /skipquestion let an invoker through exactly when
\* that is the bot owner or, with a non-empty admin list, somebody on the
\* list; a session is only started by a command of such an invoker; and an
\* invocation by anybody else calls nothing and changes no session,
\* question, store, channel or coroutine state.
C27_AuthorisedInvokersOnly ==
    [][/\ interaction_admitted' => InvokerAuthorised
       /\ (/\ interaction_vars' # interaction_vars
           /\ InvokerAuthorised)
          => interaction_admitted'
       /\ (/\ session_start.pc = "idle"
           /\ \/ session_start' # session_start
              \/ active_session_id' # active_session_id
              \/ quiz_sessions' # quiz_sessions)
          => /\ interaction_admitted'
             /\ InvokerAuthorised
       /\ (/\ interaction_vars' # interaction_vars
           /\ ~InvokerAuthorised)
          => /\ ~interaction_admitted'
             /\ UNCHANGED <<cog_vars, store_vars, world_vars, task_vars>>]_vars

\* somebody who is neither owner nor on a non-empty admin list was turned
\* away while a session with a posted question was there to be changed
C27_Witness ==
    /\ admin_ids # {}
    /\ interaction_user # None
    /\ interaction_user \notin admin_ids
    /\ interaction_user # owner_id
    /\ ~interaction_admitted
    /\ active_session_id # None
    /\ current_question_message_id # None

\* a process_user_answer call that has set the resolver leaves its
\* announcement without reaching create_task: an exception left the call
AnnouncementRaises ==
    \E c \in AnswerIds :
        /\ answers[c].pc = "announce"
        /\ ResolvingStatus(answers[c].status)
        /\ answers'[c].pc = "idle"
        /\ ~GenerationScheduled

C29_EndIsBestEffort ==
    [][/\ (/\ session_start.pc = "end_quiz_session"
           /\ session_start' # session_start)
          => /\ session_start'.pc = "create_quiz_session"
             /\ active_session_id' = active_session_id
       /\ (/\ session_start.pc = "create_quiz_session"
           /\ session_start'.pc = "get_session_details")
          => /\ active_session_id' = NewSessionId(quiz_sessions)
             /\ active_session_id' \in DOMAIN quiz_sessions'
             /\ quiz_sessions'[active_session_id'] = "open"
             /\ QuestionStateReset]_vars

\* the old session could not be ended, its row is still open, and the call
\* has made the new session the active one over a cleared question
C29_Witness ==
    /\ session_start.pc = "get_session_details"
    /\ session_start.ending # None
    /\ session_start.ending \in DOMAIN quiz_sessions
    /\ quiz_sessions[session_start.ending] = "open"
    /\ active_session_id # None
    /\ active_session_id # session_start.ending
    /\ current_question_message_id = None
    /\ user_attempts = EmptyDict

\* C30: a /resetscores that calls start_new_quiz_session on a bot without a
\* store adapter changes neither the active session nor the question state,
\* leaves the store's tables alone, is suspended in no store call and goes
\* on to no generation.
C30_NoDatabaseNoChange ==
    [][(/\ db_manager = None
        /\ interaction_vars' # interaction_vars
        /\ interaction_admitted')
       => /\ UNCHANGED <<active_session_id, question_vars, quiz_channel>>
          /\ UNCHANGED store_vars
          /\ session_start' = IdleStart
          /\ UNCHANGED <<answers, generations>>]_vars

\* start_new_quiz_session was called on a bot without a store adapter
C30_Witness ==
    /\ db_manager = None
    /\ interaction_user # None
    /\ interaction_admitted
    /\ active_session_id = None
    /\ quiz_sessions = EmptyDict

\* C31: the body of question_inactivity_timer has run only if the bot has
\* become ready; a step in which the timer skips a question, creates its
\* generation or stops on an exception is taken with the bot ready and the
\* cog loaded; and once the cog is unloaded the timer stays cancelled, no
\* timer generation is left or created, no further tick is recorded and
\* no timed-out question is reset by a step that is not a generation's.
C31_WatchdogLifecycle ==
    [][/\ timer_ticked' => bot_ready'
       /\ (\/ WatchdogSkips
           \/ WatchdogGenerationsCreated # {}
           \/ timer_ticked' # timer_ticked)
          => /\ bot_ready
             /\ cog_loaded
             /\ timer_running
       /\ ~cog_loaded
          => /\ ~cog_loaded'
             /\ ~timer_running'
             /\ timer_ticked' = timer_ticked
             /\ \A g \in GenIds : ~generations'[g].watchdog
             /\ ~(/\ TimedOut
                  /\ current_question_message_id' = None
                  /\ active_session_id' = active_session_id
                  /\ GenerationsOnlyScheduled)]_vars

\* the cog was unloaded after the timer had ticked, and the question that is
\* current has timed out without anybody left to skip it
C31_Witness ==
    /\ ~cog_loaded
    /\ bot_ready
    /\ timer_ticked
    /\ ~timer_running
    /\ TimedOut

\* the process_user_answer call c is suspended in evaluate_answer for a
\* question that is no longer the current one
StaleEvaluation(c) ==
    /\ answers[c].pc = "evaluate_answer"
    /\ answers[c].key # current_question_message_id

\* C32: an evaluation that completes for a question that has been skipped or
\* replaced ends the call there: no update_score call follows, no score
\* changes and no resolver is set.
C32_StaleAnswerHasNoEffect ==
    [][\A c \in AnswerIds :
          (StaleEvaluation(c) /\ answers'[c] # answers[c])
          => /\ answers'[c].pc = "idle"
             /\ question_answered_by' = question_answered_by
             /\ scores' = scores]_vars

\* a session is active, the slot is empty and no generation is under way:
\* the state a generation leaves that aborted on an error of the LLM adapter
GameStalled ==
    /\ cog_loaded
    /\ active_session_id # None
    /\ current_question_message_id = None
    /\ \A g \in GenIds : generations[g].pc = "idle"

\* C33: in a session whose generation has aborted and left no current
\* question, /skipquestion by an authorised admin can create a new
\* generate_and_post_new_question call.
C33_SkipResumesGame ==
    [][\A g \in GenIds :
          (GenerationAborted(g) /\ GameStalled')
          => (ENABLED (SkipSteps /\ GenerationScheduled))']_vars

\* C34: every step in which a process_user_answer call leaves a failed
\* evaluation returns the try-again message, whether or not the question
\* state was reset while the evaluation was in flight.
C34_FailedEvaluationReturnsMessage ==
    [][ProcessUserAnswer_EvaluationFailed
          => \A c \in AnswerIds :
                 (answers[c].pc = "evaluate_answer" /\ answers'[c].pc = "idle")
                 => EvaluationFailedReturn(user_attempts, answers[c].key,
                                           answers[c].user) = "could not evaluate"]_vars

\* no generate_and_post_new_question call is suspended in channel.send, where
\* the fields of the question it is about to post are already stored
NoPostUnderWay == \A g \in GenIds : generations[g].pc # "send"

\* C35: whenever no question is current, and none is being posted, every
\* other question field is cleared: no text, no intended answer, no
\* difficulty, no post time, 0 points, no resolver and an empty attempt map.
C35_EmptySlotIsCleared ==
    (current_question_message_id = None /\ NoPostUnderWay)
    => /\ current_question_text = None
       /\ current_question_intended_answer = None
       /\ current_question_difficulty = ""
       /\ time_since_last_activity = NoTime
       /\ current_question_points = 0
       /\ question_answered_by = None
       /\ user_attempts = EmptyDict

\* C36: a current question exists only within an active session.
C36_CurrentQuestionHasSession ==
    current_question_message_id # None => active_session_id # None

\* C37: attempt counts do not carry over between questions.  A question that
\* becomes current starts with a count of 0 for every user; a count is
\* raised only for the question that is current, and lowered only by a call
\* that was charged for that same question.
C37_AttemptsDoNotCarryOver ==
    [][/\ (/\ current_question_message_id' # current_question_message_id
           /\ current_question_message_id' # None)
          => /\ current_question_message_id' \in DOMAIN user_attempts'
             /\ \A u \in Users :
                    DictGet(user_attempts'[current_question_message_id'], u, 0) = 0
       /\ \A key \in DOMAIN user_attempts' :
              \A u \in DOMAIN user_attempts'[key] :
                  LET before == DictGet(DictGet(user_attempts, key, EmptyDict), u, 0)
                      after  == user_attempts'[key][u]
                  IN  /\ after > before
                         => /\ key = current_question_message_id
                            /\ key = current_question_message_id'
                      /\ after < before
                         => \E c \in AnswerIds :
                                /\ answers[c].pc = "evaluate_answer"
                                /\ answers[c].key = key
                                /\ answers[c].user = u
                                /\ answers'[c].pc = "idle"]_vars

\* C37, its case: the second question is current and the player has been
\* charged for it, while the map still holds their count for the first
\* question, given back by a failed evaluation.
C37_Witness ==
    /\ current_question_message_id = 2
    /\ 1 \in DOMAIN user_attempts
    /\ 2 \in DOMAIN user_attempts
    /\ 1 \in DOMAIN user_attempts[1]
    /\ user_attempts[1][1] = 0
    /\ 1 \in DOMAIN user_attempts[2]
    /\ user_attempts[2][1] = 1

\* lines 222-226: the generation g comes back from channel.send and makes
\* the message it posted the current question
PostsQuestion(g) ==
    /\ generations[g].pc = "send"
    /\ generations'[g].pc = "idle"
    /\ current_question_message_id' # current_question_message_id

\* C38: when one of two overlapping generate_and_post_new_question
\* executions posts, the question that becomes current carries the text and
\* the intended answer of the generation that posted its message (the embed
\* of lines 213-220 shows the text that generation stored on line 202).
C38_FieldsOfPostedQuestion ==
    [][\A g, h \in GenIds :
          (/\ PostsQuestion(g)
           /\ h # g
           /\ generations[h].pc \in {"generate_question", "send"})
          => /\ current_question_text' = g
             /\ current_question_intended_answer' = g]_vars

\* C39: whenever no start_new_quiz_session call is under way, a non-null
\* active_session_id refers to a session whose row is not marked ended.
C39_ActiveSessionNotEnded ==
    (active_session_id # None /\ session_start.pc = "idle")
    => /\ active_session_id \in DOMAIN quiz_sessions
       /\ quiz_sessions[active_session_id] # "ended"

\* C40: when update_score raises, the process_user_answer call is over in
\* that step with nothing written to the store, the resolver still unset,
\* no generation scheduled, no message sent to the channel and the attempt
\* map as the charge left it.
C40_ScoreRaisedPropagates ==
    [][\A c \in AnswerIds :
          (/\ answers[c].pc = "update_score"
           /\ answers'[c].pc = "idle"
           /\ updates' = updates)
          => /\ scores' = scores
             /\ question_answered_by' = None
             /\ generations' = generations
             /\ channel_messages' = channel_messages
             /\ user_attempts' = user_attempts]_vars

\* C40, its case: the player's one call is over, their attempt for the
\* current question is charged, no update_score call has completed, the
\* question has no resolver and no generation follows.
C40_Witness ==
    /\ db_manager # None
    /\ active_session_id # None
    /\ current_question_message_id # None
    /\ current_question_message_id \in DOMAIN user_attempts
    /\ 1 \in DOMAIN user_attempts[current_question_message_id]
    /\ user_attempts[current_question_message_id][1] = 1
    /\ updates = 0
    /\ question_answered_by = None
    /\ \A c \in AnswerIds : answers[c].pc = "idle"
    /\ \A g \in GenIds : generations[g].pc = "idle"

=============================================================================
